---- MODULE Spec2Model ----
(***************************************************************************)
(* Draw submission and the ticket-ordered batch scheduler of               *)
(* src/src/Device/Renderer.cpp.                                            *)
(*                                                                         *)
(* One caller thread executes Renderer::draw and Renderer::synchronize;    *)
(* every batch task and every pixel continuation is a worker task that     *)
(* runs concurrently with the caller and with each other.  The ticket      *)
(* queues, the shared finalizer and the object pools are marl library      *)
(* objects: their behaviour is modelled from the specification (a FIFO     *)
(* sequencer whose head record is "called", reference-counted ownership,   *)
(* pools whose borrow blocks on exhaustion).                               *)
(***************************************************************************)
EXTENDS Integers, Sequences, FiniteSets, TLC

(* ---- bounds of the model ---- *)
MaxDraws == 2
MaxSyncs == 1
MaxRejected == 1
MaxQueryDraws == 2
MaxModeDraws == 1
MaxStart == 2
DrawCallPoolSize == 2
BatchDataPoolSize == 2
MaxClusterCount == 2

(* ---- program constants ---- *)
MaxBatchSize == 128

Clusters == 0 .. (MaxClusterCount - 1)
DrawSlots == 1 .. DrawCallPoolSize
BatchSlots == 1 .. BatchDataPoolSize
MaxPoolDraws == 3
DrawIds == 0 .. (MaxPoolDraws - 1)

\* Primitive counts handed to Renderer::draw: one batch, two batches.
Counts == {1, MaxBatchSize + 1}

\* Seeds of the index buffer contents.
IndexSeeds == {11, 100}

\* Counts around the batch sizes 128, 42, 32 and 10.
ModeCounts == {1, 43, MaxBatchSize}

\* The arguments of Renderer::draw that the scheduler reads.
DrawInputs ==
    [ count : Counts,
      rasterizerDiscard : BOOLEAN,
      ms : {1},
      events : {TRUE},
      update : {TRUE},
      colorBuffer : {TRUE},
      preRasterizationContainsImageWrite : {FALSE},
      fragmentContainsImageWrite : {TRUE},
      sameLayout : {FALSE},
      topology : {"triangle"},
      polygonMode : {"FILL"} ]

NoInput ==
    [ count |-> 0, rasterizerDiscard |-> FALSE, ms |-> 1, events |-> FALSE,
      update |-> FALSE, colorBuffer |-> FALSE,
      preRasterizationContainsImageWrite |-> FALSE,
      fragmentContainsImageWrite |-> FALSE, sameLayout |-> FALSE,
      topology |-> "triangle", polygonMode |-> "FILL" ]

VARIABLES
    nextDrawID,      \* Renderer::nextDrawID
    occlusionQuery,  \* Renderer::occlusionQuery (FALSE = nullptr)
    pixelState,      \* Renderer::pixelState (occlusionEnabled)
    routines,        \* Renderer::vertexRoutine, setupRoutine, pixelRoutine (FALSE = empty)
    caller,          \* the submitting thread: where it is in draw / run / synchronize
    drawCall,        \* the DrawCall objects of drawCallPool
    batchData,       \* the BatchData objects of batchDataPool, with their task
    drawTickets,     \* Renderer::drawTickets: records not yet done, in take order
    clusterQueues,   \* Renderer::clusterQueues[cluster], likewise
    tornDown,        \* the teardowns executed so far, in order, with their calls
    invoked,         \* per draw id, the routines invoked for it so far
    submitCalls,     \* per draw id, the collaborator calls made while submitting
    rejected,        \* number of draw calls rejected for a zero count
    syncs,           \* number of synchronize calls made
    syncDone,        \* draw-id barriers of the synchronize calls that returned
    assembly,        \* one call of processPrimitiveVertices: arguments and output
    setup,           \* one call of a triangle setup strategy: arguments and result
    sizing           \* the batch sizes and ranges of one draw of a 32-bit count

vars == << nextDrawID, occlusionQuery, pixelState, routines, caller, drawCall, batchData,
           drawTickets, clusterQueues, tornDown, invoked, submitCalls, rejected,
           syncs, syncDone, assembly, setup, sizing >>

(* ---- marl::Ticket::Queue ---- *)

\* take(): the record is appended; it is the reservation order.
Take(q, r) == Append(q, r)

\* done(): the record leaves the queue, wherever it stands.
Done(q, r) == SelectSeq(q, LAMBDA x : x # r)

\* A record is called when it stands at the head of its queue.
Called(q, r) == Len(q) > 0 /\ Head(q) = r

InQueue(q, r) == \E i \in 1 .. Len(q) : q[i] = r

DrawTicket(id) == << "draw", id >>
SyncTicket(n) == << "sync", n >>
DestroyTicket == << "destroy", 0 >>
ClusterTicket(b) == << batchData[b].drawId, batchData[b].id >>

(* ---- initial state ---- *)

FreeDrawCall ==
    [ id |-> -1, loans |-> 0, finally |-> 0,
      numPrimitives |-> 0, numPrimitivesPerBatch |-> 0, numBatches |-> 0,
      rasterizerDiscard |-> FALSE, events |-> FALSE, occlusionQuery |-> FALSE,
      occlusionEnabled |-> FALSE,
      vertexRoutine |-> FALSE, setupRoutine |-> FALSE, pixelRoutine |-> FALSE,
      setupPrimitives |-> "nullptr", colorBuffer |-> FALSE,
      preRasterizationContainsImageWrite |-> FALSE,
      fragmentContainsImageWrite |-> FALSE, sameLayout |-> FALSE,
      occlusion |-> [c \in Clusters |-> 0] ]

FreeBatchData ==
    [ draw |-> 0, drawId |-> -1, id |-> 0, firstPrimitive |-> 0,
      numPrimitives |-> 0, numVisible |-> 0, pc |-> "none", cluster |-> 0,
      loans |-> 0, data |-> 0,
      pixel |-> [c \in Clusters |-> "none"],
      vertexCache |-> [ drawCall |-> -1, entries |-> {} ] ]

\* No draw is being sized.
NoSizing ==
    [ pc |-> "none", count |-> << 0, 0 >>, ms |-> 1,
      numPrimitivesPerBatch |-> 0, numBatches |-> 0, batchId |-> 0,
      onLoan |-> 0, batches |-> << >> ]

\* No call of a setup strategy is being looked at.
NoSetup ==
    [ pc |-> "none", strategy |-> "setupSolidTriangles", ms |-> 1,
      frontFace |-> "COUNTER_CLOCKWISE", cullMode |-> {}, triangles |-> << >>,
      visible |-> 0, cursor |-> 0, clipped |-> {}, routine |-> {}, kept |-> {} ]

\* No call of processPrimitiveVertices is being looked at.
NoAssembly ==
    [ pc |-> "none", topology |-> "TRIANGLE_LIST", provokeFirst |-> TRUE,
      indexType |-> "none", seed |-> 0, start |-> 0, triangleCount |-> 0,
      out |-> << >> ]

\* No routine has been built: the three members are empty.
NoRoutines ==
    [ vertexRoutine |-> FALSE, setupRoutine |-> FALSE, pixelRoutine |-> FALSE ]

IdleCaller == [ pc |-> "idle", slot |-> 0, batchId |-> 0, p |-> NoInput ]

RendererInit ==
    /\ nextDrawID = 0
    /\ occlusionQuery = FALSE
    /\ pixelState = [ occlusionEnabled |-> FALSE ]
    /\ routines = NoRoutines
    /\ caller = IdleCaller
    /\ drawCall = [s \in DrawSlots |-> FreeDrawCall]
    /\ batchData = [b \in BatchSlots |-> FreeBatchData]
    /\ drawTickets = << >>
    /\ clusterQueues = [c \in Clusters |-> << >>]
    /\ tornDown = << >>
    /\ invoked = [id \in DrawIds |-> {}]
    /\ submitCalls = [id \in DrawIds |-> {}]
    /\ rejected = 0
    /\ syncs = 0
    /\ syncDone = {}

Init ==
    /\ RendererInit
    /\ assembly = NoAssembly
    /\ setup = NoSetup
    /\ sizing = NoSizing

(* ---- Renderer::draw ---- *)

\* Mutant: the count is not looked at.
DrawRejected_never(p) == FALSE

\* A zero-count draw is rejected before anything else happens.
DrawRejected(p) == p.count = 0

Min(a, b) == IF a < b THEN a ELSE b

\* The sample count that sizes the batches.
SampleCount(p) == IF p.rasterizerDiscard THEN 1 ELSE p.ms

PrimitivesPerBatch(p) == MaxBatchSize \div SampleCount(p)

\* An unsigned int as its two 16-bit halves << high, low >>.
Word == 65536

Unsigned(n) == << n \div Word, n % Word >>

\* x + n in unsigned int arithmetic, for n below 2^16: the carry out of
\* the high half is lost.
Add32(x, n) ==
    << (x[1] + (x[2] + n) \div Word) % Word, (x[2] + n) % Word >>

\* x / d, for d below 2^7.
Div32(x, d) == x[1] * (Word \div d) + (x[1] * (Word % d) + x[2]) \div d

\* (count + draw->numPrimitivesPerBatch - 1) / draw->numPrimitivesPerBatch
\* with count an unsigned int.
BatchCount32(count, perBatch) == Div32(Add32(count, perBatch - 1), perBatch)

BatchCount(count, perBatch) == BatchCount32(Unsigned(count), perBatch)

\* Renderer::pixelState after the "update" block of draw.
UpdatedPixelState(p) ==
    IF p.update /\ ~p.rasterizerDiscard
    THEN [ occlusionEnabled |-> occlusionQuery ]
    ELSE pixelState

\* The routines of the Renderer after the "update" block of draw: the
\* vertex routine is built on every update, the setup and the pixel routine
\* only when rasterization is not discarded.
UpdatedRoutines(p) ==
    IF p.update
    THEN [ vertexRoutine |-> TRUE,
           setupRoutine |-> IF p.rasterizerDiscard THEN routines.setupRoutine
                            ELSE TRUE,
           pixelRoutine |-> IF p.rasterizerDiscard THEN routines.pixelRoutine
                            ELSE TRUE ]
    ELSE routines

\* The fields draw writes whether or not rasterization is discarded.
PopulateCommon(d, p, id) ==
    [ d EXCEPT
        !.id = id,
        !.preRasterizationContainsImageWrite = p.preRasterizationContainsImageWrite,
        !.fragmentContainsImageWrite = p.fragmentContainsImageWrite,
        !.occlusionQuery = occlusionQuery,
        !.numPrimitives = p.count,
        !.numPrimitivesPerBatch = PrimitivesPerBatch(p),
        !.numBatches = BatchCount(p.count, PrimitivesPerBatch(p)),
        !.rasterizerDiscard = p.rasterizerDiscard,
        !.vertexRoutine = UpdatedRoutines(p).vertexRoutine,
        !.events = p.events ]

\* The polygon modes the switch of draw knows.
PolygonModes == {"FILL", "LINE", "POINT"}

\* The triangle branch of draw reaches the default case of its switch.
Unsupported(p) ==
    /\ ~p.rasterizerDiscard
    /\ p.topology = "triangle"
    /\ p.polygonMode \notin PolygonModes

\* The setup strategy chosen by topology and polygon mode.  The division of
\* the local numPrimitivesPerBatch by 3 in the LINE and POINT cases comes
\* after draw->numPrimitivesPerBatch and draw->numBatches were written, and
\* the local is not read again: it reaches no field of the DrawCall.
SetupFunction(p) ==
    IF p.topology = "triangle"
    THEN CASE p.polygonMode = "FILL" -> "setupSolidTriangles"
           [] p.polygonMode = "LINE" -> "setupWireframeTriangles"
           [] p.polygonMode = "POINT" -> "setupPointTriangles"
           [] OTHER -> "nullptr"
    ELSE IF p.topology = "line" THEN "setupLines" ELSE "setupPoints"

\* The fields draw writes only when rasterization is not discarded.
PopulateRaster(d, p) ==
    [ d EXCEPT
        !.setupPrimitives = SetupFunction(p),
        !.setupRoutine = UpdatedRoutines(p).setupRoutine,
        !.pixelRoutine = UpdatedRoutines(p).pixelRoutine,
        !.occlusionEnabled = UpdatedPixelState(p).occlusionEnabled,
        !.sameLayout = p.sameLayout,
        !.colorBuffer = p.colorBuffer,
        !.occlusion = IF UpdatedPixelState(p).occlusionEnabled
                      THEN [c \in Clusters |-> 0]
                      ELSE @ ]

Populate(d, p, id) ==
    IF p.rasterizerDiscard
    THEN PopulateCommon(d, p, id)
    ELSE PopulateRaster(PopulateCommon(d, p, id), p)

\* PrepareForSampling, once per distinct pipeline layout in use.
PrepareCalls(p) ==
    {"PrepareForSampling.preRasterization"}
    \cup (IF ~p.rasterizerDiscard /\ ~p.sameLayout
          THEN {"PrepareForSampling.fragment"} ELSE {})

(* ---- DrawCall::setup and DrawCall::teardown ---- *)

\* Mutant: setup leaves the query alone.
DrawCall_setup_noStart(d) ==
    IF d.events THEN {"events.add"} ELSE {}

DrawCall_setup(d) ==
    (IF d.occlusionQuery THEN {"query.start"} ELSE {})
    \cup (IF d.events THEN {"events.add"} ELSE {})

\* Mutant: teardown notifies whatever the DrawCall holds, discard or not.
DrawCall_teardown_noDiscardCheck(d) ==
    (IF d.events THEN {"events.done"} ELSE {})
    \cup (IF d.preRasterizationContainsImageWrite
          THEN {"ContentsChanged.preRasterization"} ELSE {})
    \cup (IF d.occlusionQuery THEN {"query.add", "query.finish"} ELSE {})
    \cup (IF d.colorBuffer THEN {"colorBuffer.contentsChanged"} ELSE {})
    \cup (IF d.fragmentContainsImageWrite
             /\ ~(d.preRasterizationContainsImageWrite /\ d.sameLayout)
          THEN {"ContentsChanged.fragment"} ELSE {})

\* Mutant: the fragment layout is notified whatever was notified before.
DrawCall_teardown_doubleNotify(d) ==
    (IF d.events THEN {"events.done"} ELSE {})
    \cup (IF d.preRasterizationContainsImageWrite
          THEN {"ContentsChanged.preRasterization"} ELSE {})
    \cup (IF ~d.rasterizerDiscard
          THEN (IF d.occlusionQuery THEN {"query.add", "query.finish"} ELSE {})
               \cup (IF d.colorBuffer THEN {"colorBuffer.contentsChanged"} ELSE {})
               \cup (IF d.fragmentContainsImageWrite
                     THEN {"ContentsChanged.fragment"} ELSE {})
          ELSE {})

\* Mutant: teardown does not signal the events.
DrawCall_teardown_noEventsDone(d) ==
    (IF d.preRasterizationContainsImageWrite
     THEN {"ContentsChanged.preRasterization"} ELSE {})
    \cup (IF ~d.rasterizerDiscard
          THEN (IF d.occlusionQuery THEN {"query.add", "query.finish"} ELSE {})
               \cup (IF d.colorBuffer THEN {"colorBuffer.contentsChanged"} ELSE {})
               \cup (IF d.fragmentContainsImageWrite
                        /\ ~(d.preRasterizationContainsImageWrite /\ d.sameLayout)
                     THEN {"ContentsChanged.fragment"} ELSE {})
          ELSE {})

DrawCall_teardown(d) ==
    (IF d.events THEN {"events.done"} ELSE {})
    \cup (IF d.preRasterizationContainsImageWrite
          THEN {"ContentsChanged.preRasterization"} ELSE {})
    \cup (IF ~d.rasterizerDiscard
          THEN (IF d.occlusionQuery THEN {"query.add", "query.finish"} ELSE {})
               \cup (IF d.colorBuffer THEN {"colorBuffer.contentsChanged"} ELSE {})
               \cup (IF d.fragmentContainsImageWrite
                        /\ ~(d.preRasterizationContainsImageWrite /\ d.sameLayout)
                     THEN {"ContentsChanged.fragment"} ELSE {})
          ELSE {})

(* ---- the shared finalizer of DrawCall::run ---- *)

\* The finalizer runs when the last reference to it is dropped.
LastReference(s) == drawCall[s].finally = 1

\* Mutant: every holder marks the draw ticket done as it lets go, not the
\* shared finalizer alone.
ReleaseDraw_doneByEach(s) ==
    LET d == drawCall[s] IN
    /\ drawTickets' = Done(drawTickets, DrawTicket(d.id))
    /\ IF LastReference(s)
       THEN /\ tornDown' = Append(tornDown,
                                  [ id |-> d.id, discard |-> d.rasterizerDiscard,
                                    calls |-> DrawCall_teardown(d) ])
            /\ drawCall' = [ drawCall EXCEPT ![s].finally = 0,
                                             ![s].loans = @ - 2,
                                             ![s].events = FALSE,
                                             ![s].vertexRoutine = FALSE,
                                             ![s].setupRoutine = FALSE,
                                             ![s].pixelRoutine = FALSE ]
       ELSE /\ drawCall' = [ drawCall EXCEPT ![s].finally = @ - 1,
                                             ![s].loans = @ - 1 ]
            /\ UNCHANGED tornDown

\* One holder of the finalizer and of a DrawCall loan lets go of both.  The
\* last holder runs the finalizer: teardown (the events are signalled and
\* forgotten, the three routines are emptied), then the draw ticket is
\* done, and the finalizer's own DrawCall loan goes back.
ReleaseDraw(s) ==
    LET d == drawCall[s] IN
    IF LastReference(s)
    THEN /\ tornDown' = Append(tornDown,
                               [ id |-> d.id, discard |-> d.rasterizerDiscard,
                                 calls |-> DrawCall_teardown(d) ])
         /\ drawTickets' = Done(drawTickets, DrawTicket(d.id))
         /\ drawCall' = [ drawCall EXCEPT ![s].finally = 0,
                                          ![s].loans = @ - 2,
                                          ![s].events = FALSE,
                                          ![s].vertexRoutine = FALSE,
                                          ![s].setupRoutine = FALSE,
                                          ![s].pixelRoutine = FALSE ]
    ELSE /\ drawCall' = [ drawCall EXCEPT ![s].finally = @ - 1,
                                          ![s].loans = @ - 1 ]
         /\ UNCHANGED << tornDown, drawTickets >>

Renderer_draw(p) ==
    /\ caller.pc = "idle"
    /\ IF DrawRejected(p)
       THEN /\ rejected' = rejected + 1
            /\ UNCHANGED << nextDrawID, occlusionQuery, pixelState, caller,
                            drawCall, batchData, drawTickets, clusterQueues,
                            tornDown, invoked, submitCalls, syncs, syncDone, assembly, setup, sizing,
                    routines >>
       ELSE /\ nextDrawID' = nextDrawID + 1
            /\ caller' = [ pc |-> "borrow", slot |-> 0, batchId |-> 0, p |-> p ]
            /\ UNCHANGED << occlusionQuery, pixelState, drawCall, batchData,
                            drawTickets, clusterQueues, tornDown, invoked,
                            submitCalls, rejected, syncs, syncDone, assembly, setup, sizing,
                    routines >>

\* drawCallPool.borrow() returned: the draw is populated and DrawCall::run
\* begins (setup, the draw ticket, the finalizer).
Renderer_draw_borrow(s) ==
    LET p == caller.p
        id == nextDrawID - 1
        d == Populate(drawCall[s], p, id)
    IN
    /\ caller.pc = "borrow"
    /\ ~Unsupported(p)
    /\ drawCall[s].loans = 0
    /\ pixelState' = UpdatedPixelState(p)
    /\ routines' = UpdatedRoutines(p)
    /\ drawCall' = [ drawCall EXCEPT ![s] = [ d EXCEPT !.loans = 2, !.finally = 1 ] ]
    /\ submitCalls' = [ submitCalls EXCEPT ![id] = PrepareCalls(p) \cup DrawCall_setup(d) ]
    /\ drawTickets' = Take(drawTickets, DrawTicket(id))
    /\ caller' = [ pc |-> "run", slot |-> s, batchId |-> 0, p |-> NoInput ]
    /\ UNCHANGED << nextDrawID, occlusionQuery, batchData, clusterQueues,
                    tornDown, invoked, rejected, syncs, syncDone, assembly, setup, sizing >>

\* What "UNSUPPORTED(...); return;" leaves of the caller.  The build decides
\* what the diagnostic does: where it is fatal the process is terminated
\* inside draw, where it is only a warning the return after it is reached
\* and draw comes back to the caller.
UnsupportedOutcomes == {"aborted", "idle"}

\* drawCallPool.borrow() returned and the polygon mode is not one the
\* switch knows: the common fields are written already and the diagnostic
\* is raised.  If it ends the process, the DrawCall is still on loan to
\* draw; if it returns, draw returns and the loan ends with it, without
\* setup, ticket or teardown.  DrawCall::run is not reached.
Renderer_draw_unsupported(s, outcome) ==
    LET p == caller.p
        id == nextDrawID - 1
        d == PopulateCommon(drawCall[s], p, id)
    IN
    /\ caller.pc = "borrow"
    /\ Unsupported(p)
    /\ drawCall[s].loans = 0
    /\ pixelState' = UpdatedPixelState(p)
    /\ routines' = UpdatedRoutines(p)
    /\ drawCall' = [ drawCall EXCEPT ![s] =
                        [ d EXCEPT !.events = drawCall[s].events,
                                   !.loans = IF outcome = "aborted" THEN 1 ELSE 0 ] ]
    /\ submitCalls' = [ submitCalls EXCEPT ![id] =
                           {"PrepareForSampling.preRasterization", "UNSUPPORTED"} ]
    /\ caller' = [ IdleCaller EXCEPT !.pc = outcome ]
    /\ UNCHANGED << nextDrawID, occlusionQuery, batchData, drawTickets,
                    clusterQueues, tornDown, invoked, rejected, syncs, syncDone,
                    assembly, setup, sizing >>

(* ---- DrawCall::run: the batch loop ---- *)

\* Mutant: the ticket loop stops one cluster short.
DrawCall_run_batch_shortLoop(b) ==
    LET s == caller.slot
        d == drawCall[s]
        first == caller.batchId * d.numPrimitivesPerBatch
    IN
    /\ caller.pc = "run"
    /\ caller.batchId < d.numBatches
    /\ batchData[b].loans = 0
    /\ batchData' = [ batchData EXCEPT ![b] =
           [ @ EXCEPT !.draw = s, !.drawId = d.id, !.id = caller.batchId,
                      !.firstPrimitive = first,
                      !.numPrimitives =
                          Min(first + d.numPrimitivesPerBatch, d.numPrimitives) - first,
                      !.pc = "vertex", !.cluster = 0, !.loans = 1 ] ]
    /\ clusterQueues' = [ c \in Clusters |->
                            IF c < MaxClusterCount - 1
                            THEN Take(clusterQueues[c], << d.id, caller.batchId >>)
                            ELSE clusterQueues[c] ]
    /\ drawCall' = [ drawCall EXCEPT ![s].loans = @ + 1, ![s].finally = @ + 1 ]
    /\ caller' = [ caller EXCEPT !.batchId = @ + 1 ]
    /\ UNCHANGED << nextDrawID, occlusionQuery, pixelState, drawTickets, tornDown,
                    invoked, submitCalls, rejected, syncs, syncDone, assembly, setup, sizing,
                    routines >>

\* One iteration: a BatchData is borrowed, a ticket is taken on every
\* cluster queue, and the batch task is scheduled.
DrawCall_run_batch(b) ==
    LET s == caller.slot
        d == drawCall[s]
        first == caller.batchId * d.numPrimitivesPerBatch
    IN
    /\ caller.pc = "run"
    /\ caller.batchId < d.numBatches
    /\ batchData[b].loans = 0
    /\ batchData' = [ batchData EXCEPT ![b] =
           [ @ EXCEPT !.draw = s, !.drawId = d.id, !.id = caller.batchId,
                      !.firstPrimitive = first,
                      !.numPrimitives =
                          Min(first + d.numPrimitivesPerBatch, d.numPrimitives) - first,
                      !.pc = "vertex", !.cluster = 0, !.loans = 1 ] ]
    /\ clusterQueues' = [ c \in Clusters |->
                            Take(clusterQueues[c], << d.id, caller.batchId >>) ]
    /\ drawCall' = [ drawCall EXCEPT ![s].loans = @ + 1, ![s].finally = @ + 1 ]
    /\ caller' = [ caller EXCEPT !.batchId = @ + 1 ]
    /\ UNCHANGED << nextDrawID, occlusionQuery, pixelState, drawTickets, tornDown,
                    invoked, submitCalls, rejected, syncs, syncDone, assembly, setup, sizing,
                    routines >>

\* The loop is over: run and draw return, dropping their references.
DrawCall_run_return ==
    /\ caller.pc = "run"
    /\ caller.batchId >= drawCall[caller.slot].numBatches
    /\ ReleaseDraw(caller.slot)
    /\ caller' = IdleCaller
    /\ UNCHANGED << nextDrawID, occlusionQuery, pixelState, batchData,
                    clusterQueues, invoked, submitCalls, rejected, syncs, syncDone,
                    assembly, setup, sizing,
                    routines >>

(* ---- the batch task ---- *)

\* The process runs until abort() is called or a call through an empty
\* routine ends it; no task takes a step after that.
Running == caller.pc # "aborted"

Visible == {0, 1}

\* Mutant: the cache is never cleared.
VertexCacheFor_neverClear(cache, id) ==
    [ drawCall |-> id, entries |-> cache.entries ]

\* The vertex cache of the BatchData as the vertex routine finds it: cleared
\* and given to draw id unless it belongs to that draw already.
VertexCacheFor(cache, id) ==
    IF cache.drawCall # id
    THEN [ drawCall |-> id, entries |-> {} ]
    ELSE cache

\* The vertex routine leaves entries of the batch it ran for in the cache;
\* an entry is named by the draw and the batch that produced it.
processVertices(b) ==
    LET t == batchData[b]
        id == drawCall[t.draw].id
        cache == VertexCacheFor(t.vertexCache, id)
    IN
    /\ Running
    /\ t.pc = "vertex"
    /\ drawCall[t.draw].vertexRoutine
    /\ invoked' = [ invoked EXCEPT ![t.drawId] = @ \cup {"vertex"} ]
    /\ batchData' = [ batchData EXCEPT
           ![b].vertexCache =
               [ cache EXCEPT !.entries = @ \cup { << id, t.id >> } ],
           ![b].pc =
               IF drawCall[t.draw].rasterizerDiscard THEN "release" ELSE "primitives" ]
    /\ UNCHANGED << nextDrawID, occlusionQuery, pixelState, caller, drawCall,
                    drawTickets, clusterQueues, tornDown, submitCalls, rejected, syncs,
                    syncDone, assembly, setup, sizing,
                    routines >>

\* The draw was populated while the Renderer had no vertex routine (no draw
\* had passed update yet): the cache is prepared as ever, and the call
\* through the empty routine ends the process.
processVertices_emptyRoutine(b) ==
    LET t == batchData[b]
        id == drawCall[t.draw].id
    IN
    /\ Running
    /\ t.pc = "vertex"
    /\ ~drawCall[t.draw].vertexRoutine
    /\ batchData' = [ batchData EXCEPT
           ![b].vertexCache = VertexCacheFor(t.vertexCache, id),
           ![b].pc = "aborted" ]
    /\ caller' = [ caller EXCEPT !.pc = "aborted" ]
    /\ UNCHANGED << nextDrawID, occlusionQuery, pixelState, routines, drawCall,
                    drawTickets, clusterQueues, tornDown, invoked, submitCalls,
                    rejected, syncs, syncDone, assembly, setup, sizing >>

\* Mutant: the batch goes on to processPixels whatever setup reported.
processPrimitives_alwaysPixels(b, visible) ==
    LET t == batchData[b] IN
    /\ Running
    /\ t.pc = "primitives"
    /\ visible > 0 => drawCall[t.draw].setupRoutine
    /\ invoked' = [ invoked EXCEPT ![t.drawId] = @ \cup {"setup"} ]
    /\ batchData' = [ batchData EXCEPT ![b].numVisible = visible,
                                       ![b].pc = "pixels" ]
    /\ UNCHANGED << nextDrawID, occlusionQuery, pixelState, caller, drawCall,
                    drawTickets, clusterQueues, tornDown, submitCalls, rejected,
                    syncs, syncDone, assembly, setup, sizing,
                    routines >>

\* The draw was populated while the Renderer had no setup routine (no draw
\* without rasterizer discard had passed update yet): the setup strategy is
\* entered, and for the first primitive it does not skip, the call through
\* the empty routine ends the process; numVisible is not written.
processPrimitives_emptyRoutine(b) ==
    LET t == batchData[b] IN
    /\ Running
    /\ t.pc = "primitives"
    /\ ~drawCall[t.draw].setupRoutine
    /\ invoked' = [ invoked EXCEPT ![t.drawId] = @ \cup {"setup"} ]
    /\ batchData' = [ batchData EXCEPT ![b].pc = "aborted" ]
    /\ caller' = [ caller EXCEPT !.pc = "aborted" ]
    /\ UNCHANGED << nextDrawID, occlusionQuery, pixelState, routines, drawCall,
                    drawTickets, clusterQueues, tornDown, submitCalls, rejected,
                    syncs, syncDone, assembly, setup, sizing >>

\* The setup strategy reports how many primitives are visible; it calls the
\* setup routine only for a primitive it does not skip, so without a setup
\* routine it can only report that none is visible.
processPrimitives(b, visible) ==
    LET t == batchData[b] IN
    /\ Running
    /\ t.pc = "primitives"
    /\ visible > 0 => drawCall[t.draw].setupRoutine
    /\ invoked' = [ invoked EXCEPT ![t.drawId] = @ \cup {"setup"} ]
    /\ batchData' = [ batchData EXCEPT ![b].numVisible = visible,
                                       ![b].pc = IF visible > 0 THEN "pixels"
                                                 ELSE "release" ]
    /\ UNCHANGED << nextDrawID, occlusionQuery, pixelState, caller, drawCall,
                    drawTickets, clusterQueues, tornDown, submitCalls, rejected, syncs,
                    syncDone, assembly, setup, sizing,
                    routines >>

\* Mutant: the Data block holds the two loans but not the finalizer.
processPixels_noFinally(b) ==
    LET t == batchData[b]
        c == t.cluster
        held == IF c = 0 THEN 1 ELSE t.data
        last == c = MaxClusterCount - 1
    IN
    /\ Running
    /\ t.pc = "pixels"
    /\ batchData' = [ batchData EXCEPT
           ![b].pixel[c] = "attached",
           ![b].data = IF last THEN held ELSE held + 1,
           ![b].loans = IF c = 0 THEN @ + 1 ELSE @,
           ![b].cluster = IF last THEN 0 ELSE c + 1,
           ![b].pc = IF last THEN "exit" ELSE "pixels" ]
    /\ drawCall' = [ drawCall EXCEPT
           ![t.draw].loans = IF c = 0 THEN @ + 1 ELSE @ ]
    /\ UNCHANGED << nextDrawID, occlusionQuery, pixelState, caller, drawTickets,
                    clusterQueues, tornDown, invoked, submitCalls, rejected,
                    syncs, syncDone, assembly, setup, sizing,
                    routines >>

\* Mutant: the Data block refers to the BatchData without a loan of it.
processPixels_noBatchLoan(b) ==
    LET t == batchData[b]
        c == t.cluster
        held == IF c = 0 THEN 1 ELSE t.data
        last == c = MaxClusterCount - 1
    IN
    /\ Running
    /\ t.pc = "pixels"
    /\ batchData' = [ batchData EXCEPT
           ![b].pixel[c] = "attached",
           ![b].data = IF last THEN held ELSE held + 1,
           ![b].cluster = IF last THEN 0 ELSE c + 1,
           ![b].pc = IF last THEN "exit" ELSE "pixels" ]
    /\ drawCall' = [ drawCall EXCEPT
           ![t.draw].loans = IF c = 0 THEN @ + 1 ELSE @,
           ![t.draw].finally = IF c = 0 THEN @ + 1 ELSE @ ]
    /\ UNCHANGED << nextDrawID, occlusionQuery, pixelState, caller, drawTickets,
                    clusterQueues, tornDown, invoked, submitCalls, rejected,
                    syncs, syncDone, assembly, setup, sizing,
                    routines >>

\* processPixels: the continuation of one more cluster is put on its ticket.
\* The Data block is held by processPixels itself until it returns.
processPixels(b) ==
    LET t == batchData[b]
        c == t.cluster
        held == IF c = 0 THEN 1 ELSE t.data
        last == c = MaxClusterCount - 1
    IN
    /\ Running
    /\ t.pc = "pixels"
    /\ batchData' = [ batchData EXCEPT
           ![b].pixel[c] = "attached",
           ![b].data = IF last THEN held ELSE held + 1,
           ![b].loans = IF c = 0 THEN @ + 1 ELSE @,
           ![b].cluster = IF last THEN 0 ELSE c + 1,
           ![b].pc = IF last THEN "exit" ELSE "pixels" ]
    /\ drawCall' = [ drawCall EXCEPT
           ![t.draw].loans = IF c = 0 THEN @ + 1 ELSE @,
           ![t.draw].finally = IF c = 0 THEN @ + 1 ELSE @ ]
    /\ UNCHANGED << nextDrawID, occlusionQuery, pixelState, caller, drawTickets,
                    clusterQueues, tornDown, invoked, submitCalls, rejected, syncs, syncDone,
                    assembly, setup, sizing,
                    routines >>

\* Nothing to draw, or rasterization discarded: the ticket of one more
\* cluster is done.
releaseTickets(b) ==
    LET t == batchData[b]
        c == t.cluster
        last == c = MaxClusterCount - 1
    IN
    /\ Running
    /\ t.pc = "release"
    /\ clusterQueues' = [ clusterQueues EXCEPT ![c] = Done(@, ClusterTicket(b)) ]
    /\ batchData' = [ batchData EXCEPT
           ![b].cluster = IF last THEN 0 ELSE c + 1,
           ![b].pc = IF last THEN "exit" ELSE "release" ]
    /\ UNCHANGED << nextDrawID, occlusionQuery, pixelState, caller, drawCall,
                    drawTickets, tornDown, invoked, submitCalls, rejected, syncs, syncDone,
                    assembly, setup, sizing,
                    routines >>

\* The task is over and its closure is destroyed: its BatchData loan, its
\* DrawCall loan and its reference to the finalizer are dropped.
batchTaskExit(b) ==
    LET t == batchData[b] IN
    /\ Running
    /\ t.pc = "exit"
    /\ batchData' = [ batchData EXCEPT ![b].pc = "none", ![b].loans = @ - 1 ]
    /\ ReleaseDraw(t.draw)
    /\ UNCHANGED << nextDrawID, occlusionQuery, pixelState, caller,
                    clusterQueues, invoked, submitCalls, rejected, syncs, syncDone,
                    assembly, setup, sizing,
                    routines >>

(* ---- the pixel continuation of one cluster ---- *)

\* Mutant: the pixel routine is called directly, not through onCall.
PixelMayStart_direct(b, c) == TRUE

\* onCall: the continuation runs once its ticket is called.
PixelMayStart(b, c) == Called(clusterQueues[c], ClusterTicket(b))

\* Mutant: the cluster ticket is done before the pixel routine runs.
pixelStart_doneFirst(b, c) ==
    LET t == batchData[b] IN
    /\ Running
    /\ t.pixel[c] = "attached"
    /\ PixelMayStart(b, c)
    /\ drawCall[t.draw].pixelRoutine
    /\ batchData' = [ batchData EXCEPT ![b].pixel[c] = "running" ]
    /\ invoked' = [ invoked EXCEPT ![t.drawId] = @ \cup {"pixel"} ]
    /\ clusterQueues' = [ clusterQueues EXCEPT ![c] = Done(@, ClusterTicket(b)) ]
    /\ UNCHANGED << nextDrawID, occlusionQuery, pixelState, caller, drawCall,
                    drawTickets, tornDown, submitCalls, rejected, syncs, syncDone,
                    assembly, setup, sizing,
                    routines >>

pixelStart(b, c) ==
    LET t == batchData[b] IN
    /\ Running
    /\ t.pixel[c] = "attached"
    /\ PixelMayStart(b, c)
    /\ drawCall[t.draw].pixelRoutine
    /\ batchData' = [ batchData EXCEPT ![b].pixel[c] = "running" ]
    /\ invoked' = [ invoked EXCEPT ![t.drawId] = @ \cup {"pixel"} ]
    /\ UNCHANGED << nextDrawID, occlusionQuery, pixelState, caller, drawCall,
                    drawTickets, clusterQueues, tornDown, submitCalls, rejected, syncs,
                    syncDone, assembly, setup, sizing,
                    routines >>

\* Mutant: the continuation returns without marking its ticket done.
pixelFinish_noDone(b, c) ==
    LET t == batchData[b] IN
    /\ Running
    /\ t.pixel[c] = "running"
    /\ batchData' = [ batchData EXCEPT ![b].pixel[c] = "done" ]
    /\ drawCall' = [ drawCall EXCEPT ![t.draw].occlusion[c] =
                        IF drawCall[t.draw].occlusionEnabled THEN 1 ELSE @ ]
    /\ UNCHANGED << nextDrawID, occlusionQuery, pixelState, caller, drawTickets,
                    clusterQueues, tornDown, invoked, submitCalls, rejected,
                    syncs, syncDone, assembly, setup, sizing,
                    routines >>

\* The pixel routine returns and the cluster ticket is done.
pixelFinish(b, c) ==
    LET t == batchData[b] IN
    /\ Running
    /\ t.pixel[c] = "running"
    /\ batchData' = [ batchData EXCEPT ![b].pixel[c] = "done" ]
    /\ drawCall' = [ drawCall EXCEPT ![t.draw].occlusion[c] =
                        IF drawCall[t.draw].occlusionEnabled THEN 1 ELSE @ ]
    /\ clusterQueues' = [ clusterQueues EXCEPT ![c] = Done(@, ClusterTicket(b)) ]
    /\ UNCHANGED << nextDrawID, occlusionQuery, pixelState, caller, drawTickets,
                    tornDown, invoked, submitCalls, rejected, syncs, syncDone,
                    assembly, setup, sizing,
                    routines >>

\* The continuation's closure is destroyed; the last one destroys the Data
\* block and with it a BatchData loan, a DrawCall loan and a reference to
\* the finalizer.
pixelExit(b, c) ==
    LET t == batchData[b] IN
    /\ Running
    /\ t.pixel[c] = "done"
    /\ IF t.data = 1
       THEN /\ batchData' = [ batchData EXCEPT ![b].pixel[c] = "none",
                                               ![b].data = 0,
                                               ![b].loans = @ - 1 ]
            /\ ReleaseDraw(t.draw)
       ELSE /\ batchData' = [ batchData EXCEPT ![b].pixel[c] = "none",
                                               ![b].data = @ - 1 ]
            /\ UNCHANGED << drawCall, tornDown, drawTickets >>
    /\ UNCHANGED << nextDrawID, occlusionQuery, pixelState, caller,
                    clusterQueues, invoked, submitCalls, rejected, syncs, syncDone,
                    assembly, setup, sizing,
                    routines >>

(* ---- Renderer::synchronize ---- *)

Renderer_synchronize ==
    /\ caller.pc = "idle"
    /\ syncs < MaxSyncs
    /\ drawTickets' = Take(drawTickets, SyncTicket(syncs))
    /\ syncs' = syncs + 1
    /\ caller' = [ IdleCaller EXCEPT !.pc = "sync" ]
    /\ UNCHANGED << nextDrawID, occlusionQuery, pixelState, drawCall, batchData,
                    clusterQueues, tornDown, invoked, submitCalls, rejected, syncDone,
                    assembly, setup, sizing,
                    routines >>

\* Mutant: synchronize does not wait on its ticket.
SyncMayReturn_noWait == TRUE

\* ticket.wait() is over once the ticket is called.
SyncMayReturn == Called(drawTickets, SyncTicket(syncs - 1))

\* The sampling-routine cache is updated and the ticket is done.
Renderer_synchronize_return ==
    /\ caller.pc = "sync"
    /\ SyncMayReturn
    /\ syncDone' = syncDone \cup {nextDrawID}
    /\ drawTickets' = Done(drawTickets, SyncTicket(syncs - 1))
    /\ caller' = IdleCaller
    /\ UNCHANGED << nextDrawID, occlusionQuery, pixelState, drawCall, batchData,
                    clusterQueues, tornDown, invoked, submitCalls, rejected, syncs,
                    assembly, setup, sizing,
                    routines >>

(* ---- Renderer::~Renderer ---- *)

\* The destructor takes a ticket on drawTickets behind every draw made.
Renderer_destroy ==
    /\ caller.pc = "idle"
    /\ drawTickets' = Take(drawTickets, DestroyTicket)
    /\ caller' = [ IdleCaller EXCEPT !.pc = "destroy" ]
    /\ UNCHANGED << nextDrawID, occlusionQuery, pixelState, routines, drawCall,
                    batchData, clusterQueues, tornDown, invoked, submitCalls,
                    rejected, syncs, syncDone, assembly, setup, sizing >>

\* wait() is over once the ticket is called: every earlier draw is torn
\* down.  The ticket is released as the temporary that holds it goes, and
\* the Renderer is gone: the caller makes no further call on it.
Renderer_destroy_return ==
    /\ caller.pc = "destroy"
    /\ Called(drawTickets, DestroyTicket)
    /\ drawTickets' = Done(drawTickets, DestroyTicket)
    /\ caller' = [ IdleCaller EXCEPT !.pc = "destroyed" ]
    /\ UNCHANGED << nextDrawID, occlusionQuery, pixelState, routines, drawCall,
                    batchData, clusterQueues, tornDown, invoked, submitCalls,
                    rejected, syncs, syncDone, assembly, setup, sizing >>

(* ---- Renderer::addQuery and Renderer::removeQuery ---- *)

Renderer_addQuery ==
    /\ caller.pc = "idle"
    /\ ~occlusionQuery
    /\ occlusionQuery' = TRUE
    /\ UNCHANGED << nextDrawID, pixelState, caller, drawCall, batchData,
                    drawTickets, clusterQueues, tornDown, invoked, submitCalls,
                    rejected, syncs, syncDone, assembly, setup, sizing,
                    routines >>

Renderer_removeQuery ==
    /\ caller.pc = "idle"
    /\ occlusionQuery
    /\ occlusionQuery' = FALSE
    /\ UNCHANGED << nextDrawID, pixelState, caller, drawCall, batchData,
                    drawTickets, clusterQueues, tornDown, invoked, submitCalls,
                    rejected, syncs, syncDone, assembly, setup, sizing,
                    routines >>

(* ---- setBatchIndices and DrawCall::processPrimitiveVertices ---- *)

Topologies ==
    {"POINT_LIST", "LINE_LIST", "LINE_STRIP", "TRIANGLE_LIST", "TRIANGLE_STRIP",
     "TRIANGLE_FAN"}

\* "none": no index buffer is bound (primitiveIndices is null).
IndexTypes == {"none", "UINT8", "UINT16", "UINT32"}

\* An entry of triangleIndicesOut that was never written.
Uninit == -1

\* Byte a of the index buffer chosen by seed.
Byte(seed, a) == (37 * a + seed) % 128

\* indices[j]: LinearIndex, or the typed read through the cast pointer.
IndexAt(a, j) ==
    CASE a.indexType = "UINT8" -> Byte(a.seed, j)
      [] a.indexType = "UINT16" -> Byte(a.seed, 2 * j) + 256 * Byte(a.seed, 2 * j + 1)
      [] a.indexType = "UINT32" ->
            Byte(a.seed, 4 * j) + 256 * Byte(a.seed, 4 * j + 1)
            + 65536 * Byte(a.seed, 4 * j + 2) + 16777216 * Byte(a.seed, 4 * j + 3)
      [] OTHER -> j

\* batch[i][j] is entry 3 * i + j + 1 of the flat array, as the point case
\* writes it.
Row(e) == (e - 1) \div 3

Col(e) == (e - 1) % 3

Put3(batch, i, v0, v1, v2) ==
    [ e \in DOMAIN batch |->
        IF Row(e) # i THEN batch[e]
        ELSE CASE Col(e) = 0 -> v0 [] Col(e) = 1 -> v1 [] OTHER -> v2 ]

\* The compacted points, then the last index three more times.
SetPointList(a, batch) ==
    [ e \in DOMAIN batch |->
        IF e - 1 < a.triangleCount THEN IndexAt(a, a.start + (e - 1))
        ELSE IF e - 1 < a.triangleCount + 3
             THEN IndexAt(a, a.start + a.triangleCount - 1)
             ELSE batch[e] ]

\* The body of the loops of LINE_LIST and LINE_STRIP.
LineTriple(a, i, index) ==
    << IndexAt(a, index + (IF a.provokeFirst THEN 0 ELSE 1)),
       IndexAt(a, index + (IF a.provokeFirst THEN 1 ELSE 0)),
       IndexAt(a, index + 1) >>

TriangleListTriple(a, i, index) ==
    << IndexAt(a, index + (IF a.provokeFirst THEN 0 ELSE 2)),
       IndexAt(a, index + (IF a.provokeFirst THEN 1 ELSE 0)),
       IndexAt(a, index + (IF a.provokeFirst THEN 2 ELSE 1)) >>

\* Mutant: the parity of the position in the batch, not in the draw.
TriangleStripTriple_batchParity(a, i, index) ==
    << IndexAt(a, index + (IF a.provokeFirst THEN 0 ELSE 2)),
       IndexAt(a, index + (i % 2) + (IF a.provokeFirst THEN 1 ELSE 0)),
       IndexAt(a, index + (1 - (i % 2)) + (IF a.provokeFirst THEN 1 ELSE 0)) >>

\* (start + i) & 1 is the parity of the primitive's number in the draw.
TriangleStripTriple(a, i, index) ==
    << IndexAt(a, index + (IF a.provokeFirst THEN 0 ELSE 2)),
       IndexAt(a, index + ((a.start + i) % 2) + (IF a.provokeFirst THEN 1 ELSE 0)),
       IndexAt(a, index + (1 - ((a.start + i) % 2)) + (IF a.provokeFirst THEN 1 ELSE 0)) >>

\* Mutant: under the last-vertex convention the triple is reversed.
TriangleFanTriple_reversed(a, i, index) ==
    IF a.provokeFirst
    THEN << IndexAt(a, index), IndexAt(a, index + 1), IndexAt(a, 0) >>
    ELSE << IndexAt(a, 0), IndexAt(a, index + 1), IndexAt(a, index) >>

\* batch[i][0 or 2], batch[i][1 or 0] and batch[i][2 or 1] are written.
TriangleFanTriple(a, i, index) ==
    IF a.provokeFirst
    THEN << IndexAt(a, index), IndexAt(a, index + 1), IndexAt(a, 0) >>
    ELSE << IndexAt(a, index + 1), IndexAt(a, 0), IndexAt(a, index) >>

\* The loop body of the topology at hand.
LoopTriple(a, i, index) ==
    CASE a.topology \in {"LINE_LIST", "LINE_STRIP"} -> LineTriple(a, i, index)
      [] a.topology = "TRIANGLE_LIST" -> TriangleListTriple(a, i, index)
      [] a.topology = "TRIANGLE_STRIP" -> TriangleStripTriple(a, i, index)
      [] a.topology = "TRIANGLE_FAN" -> TriangleFanTriple(a, i, index)

\* The array after a loop over i < triangleCount whose running index is
\* first + step * i in iteration i, and which writes LoopTriple(a, i, index)
\* to batch[i].
Loop(a, batch, first, step) ==
    [ e \in DOMAIN batch |->
        IF Row(e) < a.triangleCount
        THEN LoopTriple(a, Row(e), first + step * Row(e))[Col(e) + 1]
        ELSE batch[e] ]

\* The result of setBatchIndices and the array as it leaves it.
setBatchIndices(a, batch) ==
    CASE a.topology = "POINT_LIST" ->
            [ ok |-> TRUE, batch |-> SetPointList(a, batch) ]
      [] a.topology = "LINE_LIST" ->
            [ ok |-> TRUE,
              batch |-> Loop(a, batch, 2 * a.start, 2) ]
      [] a.topology = "LINE_STRIP" ->
            [ ok |-> TRUE,
              batch |-> Loop(a, batch, a.start, 1) ]
      [] a.topology = "TRIANGLE_LIST" ->
            [ ok |-> TRUE,
              batch |-> Loop(a, batch, 3 * a.start, 3) ]
      [] a.topology = "TRIANGLE_STRIP" ->
            [ ok |-> TRUE,
              batch |-> Loop(a, batch, a.start, 1) ]
      [] a.topology = "TRIANGLE_FAN" ->
            [ ok |-> TRUE,
              batch |-> Loop(a, batch, a.start + 1, 1) ]
      [] OTHER -> [ ok |-> FALSE, batch |-> batch ]

\* Rows 0 .. triangleCount of the caller's array, nothing written yet.
FreshIndices(a) == [ e \in 1 .. 3 * (a.triangleCount + 1) |-> Uninit ]

\* Mutant: the trailing row is left as it was.
triangleIndicesOut_noTrailingRow(a) ==
    IF a.indexType \notin IndexTypes
    THEN FreshIndices(a)
    ELSE setBatchIndices(a, FreshIndices(a)).batch

\* The array after processPrimitiveVertices.
triangleIndicesOut(a) ==
    IF a.indexType \notin IndexTypes
    THEN FreshIndices(a)
    ELSE LET r == setBatchIndices(a, FreshIndices(a))
             n == a.triangleCount
             last == r.batch[3 * (n - 1) + 2 + 1]
         IN IF ~r.ok THEN r.batch
            ELSE IF a.topology # "POINT_LIST"
                 THEN Put3(r.batch, n, last, last, last)
                 ELSE r.batch

processPrimitiveVertices ==
    /\ assembly.pc = "input"
    /\ assembly' = [ assembly EXCEPT !.pc = "done", !.out = triangleIndicesOut(assembly) ]
    /\ UNCHANGED << nextDrawID, occlusionQuery, pixelState, caller, drawCall,
                    batchData, drawTickets, clusterQueues, tornDown, invoked,
                    submitCalls, rejected, syncs, syncDone, setup, sizing,
                    routines >>

(* ---- the specification ---- *)

CallerStep ==
    \/ \E p \in DrawInputs : nextDrawID < MaxDraws /\ Renderer_draw(p)
    \/ \E s \in DrawSlots : Renderer_draw_borrow(s)
    \/ \E b \in BatchSlots : DrawCall_run_batch(b)
    \/ DrawCall_run_return
    \/ Renderer_synchronize
    \/ Renderer_synchronize_return
    \/ Renderer_destroy
    \/ Renderer_destroy_return

WorkerStep ==
    \/ \E b \in BatchSlots : processVertices(b)
    \/ \E b \in BatchSlots, v \in Visible : processPrimitives(b, v)
    \/ \E b \in BatchSlots : processPixels(b)
    \/ \E b \in BatchSlots : releaseTickets(b)
    \/ \E b \in BatchSlots : batchTaskExit(b)
    \/ \E b \in BatchSlots, c \in Clusters : pixelStart(b, c)
    \/ \E b \in BatchSlots, c \in Clusters : pixelFinish(b, c)
    \/ \E b \in BatchSlots, c \in Clusters : pixelExit(b, c)

Next == CallerStep \/ WorkerStep

Spec == Init /\ [][Next]_vars

\* Draws of two batches each: three of them exhaust both pools.
PoolInputs == { p \in DrawInputs : p.count = MaxBatchSize + 1 /\ ~p.rasterizerDiscard }

PoolCallerStep ==
    \/ \E p \in PoolInputs : nextDrawID < MaxPoolDraws /\ Renderer_draw(p)
    \/ \E s \in DrawSlots : Renderer_draw_borrow(s)
    \/ \E b \in BatchSlots : DrawCall_run_batch(b)
    \/ DrawCall_run_return

PoolNext == PoolCallerStep \/ WorkerStep

PoolSpec == Init /\ [][PoolNext]_vars

\* Single-batch and zero-count draws, with and without a routine update,
\* while an occlusion query is added and removed.
QueryInputs ==
    { p \in [ count : {0, 1},
              rasterizerDiscard : BOOLEAN,
              ms : {1},
              events : {TRUE},
              update : BOOLEAN,
              colorBuffer : {TRUE},
              preRasterizationContainsImageWrite : {FALSE},
              fragmentContainsImageWrite : {TRUE},
              sameLayout : {FALSE},
              topology : {"triangle"},
              polygonMode : {"FILL"} ] : TRUE }

QueryCallerStep ==
    \/ \E p \in QueryInputs :
          /\ nextDrawID < MaxQueryDraws
          /\ DrawRejected(p) => rejected < MaxRejected
          /\ Renderer_draw(p)
    \/ \E s \in DrawSlots : Renderer_draw_borrow(s)
    \/ \E b \in BatchSlots : DrawCall_run_batch(b)
    \/ DrawCall_run_return
    \/ Renderer_addQuery
    \/ Renderer_removeQuery

QueryNext ==
    \/ QueryCallerStep
    \/ WorkerStep
    \/ \E b \in BatchSlots : processVertices_emptyRoutine(b)
    \/ \E b \in BatchSlots : processPrimitives_emptyRoutine(b)

QuerySpec == Init /\ [][QueryNext]_vars

\* Draws of every topology and polygon mode, with and without multisampling.
ModeInputs ==
    [ count : ModeCounts,
      rasterizerDiscard : BOOLEAN,
      ms : {1, 4},
      events : {TRUE},
      update : {TRUE},
      colorBuffer : {TRUE},
      preRasterizationContainsImageWrite : {FALSE},
      fragmentContainsImageWrite : {TRUE},
      sameLayout : {FALSE},
      topology : {"triangle", "line", "point"},
      polygonMode : PolygonModes \cup {"FILL_RECTANGLE_NV"} ]

ModeCallerStep ==
    \/ \E p \in ModeInputs : nextDrawID < MaxModeDraws /\ Renderer_draw(p)
    \/ \E s \in DrawSlots : Renderer_draw_borrow(s)
    \/ \E s \in DrawSlots, o \in UnsupportedOutcomes : Renderer_draw_unsupported(s, o)
    \/ \E b \in BatchSlots : DrawCall_run_batch(b)
    \/ DrawCall_run_return

ModeNext == ModeCallerStep \/ WorkerStep

ModeSpec == Init /\ [][ModeNext]_vars

\* Single-batch draws with and without an event handle, image writes in
\* either stage group and a shared pipeline layout.
NotifyInputs ==
    [ count : {1},
      rasterizerDiscard : BOOLEAN,
      ms : {1},
      events : BOOLEAN,
      update : {TRUE},
      colorBuffer : {TRUE},
      preRasterizationContainsImageWrite : BOOLEAN,
      fragmentContainsImageWrite : BOOLEAN,
      sameLayout : BOOLEAN,
      topology : {"triangle"},
      polygonMode : {"FILL"} ]

NotifyCallerStep ==
    \/ \E p \in NotifyInputs : nextDrawID < MaxDraws /\ Renderer_draw(p)
    \/ \E s \in DrawSlots : Renderer_draw_borrow(s)
    \/ \E b \in BatchSlots : DrawCall_run_batch(b)
    \/ DrawCall_run_return

NotifyNext == NotifyCallerStep \/ WorkerStep

NotifySpec == Init /\ [][NotifyNext]_vars

\* Single-batch draws with and without a routine update, while an
\* occlusion query is added and removed.
OcclusionInputs ==
    [ count : {1},
      rasterizerDiscard : {FALSE},
      ms : {1},
      events : {TRUE},
      update : BOOLEAN,
      colorBuffer : {TRUE},
      preRasterizationContainsImageWrite : {FALSE},
      fragmentContainsImageWrite : {TRUE},
      sameLayout : {FALSE},
      topology : {"triangle"},
      polygonMode : {"FILL"} ]

OcclusionCallerStep ==
    \/ \E p \in OcclusionInputs : nextDrawID < MaxPoolDraws /\ Renderer_draw(p)
    \/ \E s \in DrawSlots : Renderer_draw_borrow(s)
    \/ \E b \in BatchSlots : DrawCall_run_batch(b)
    \/ DrawCall_run_return
    \/ Renderer_addQuery
    \/ Renderer_removeQuery

\* Without rasterizer discard the three routines are built together: a
\* batch that passed the vertex stage has a setup routine.
OcclusionNext ==
    \/ OcclusionCallerStep
    \/ WorkerStep
    \/ \E b \in BatchSlots : processVertices_emptyRoutine(b)

OcclusionSpec == Init /\ [][OcclusionNext]_vars

\* Draws of one batch each, some of them with a polygon mode the switch of
\* draw does not know.
UnsupportedInputs ==
    [ count : {1},
      rasterizerDiscard : {FALSE},
      ms : {1},
      events : {TRUE},
      update : {TRUE},
      colorBuffer : {TRUE},
      preRasterizationContainsImageWrite : {FALSE},
      fragmentContainsImageWrite : {TRUE},
      sameLayout : {FALSE},
      topology : {"triangle"},
      polygonMode : {"FILL", "FILL_RECTANGLE_NV"} ]

UnsupportedCallerStep ==
    \/ \E p \in UnsupportedInputs : nextDrawID < MaxPoolDraws /\ Renderer_draw(p)
    \/ \E s \in DrawSlots : Renderer_draw_borrow(s)
    \/ \E s \in DrawSlots, o \in UnsupportedOutcomes : Renderer_draw_unsupported(s, o)
    \/ \E b \in BatchSlots : DrawCall_run_batch(b)
    \/ DrawCall_run_return
    \/ Renderer_addQuery

UnsupportedNext == UnsupportedCallerStep \/ WorkerStep

UnsupportedSpec == Init /\ [][UnsupportedNext]_vars

\* Start offsets and counts of a batch, up to a full batch.
Starts == (0 .. MaxStart) \cup {MaxBatchSize}

TriangleCounts == 1 .. MaxBatchSize

AssemblyInputs ==
    [ pc : {"input"}, topology : Topologies, provokeFirst : BOOLEAN,
      indexType : IndexTypes, seed : IndexSeeds, start : Starts,
      triangleCount : TriangleCounts, out : {<< >>} ]

AssemblyInit ==
    /\ RendererInit
    /\ assembly \in AssemblyInputs
    /\ setup = NoSetup
    /\ sizing = NoSizing

AssemblyNext == processPrimitiveVertices

AssemblySpec == AssemblyInit /\ [][AssemblyNext]_vars

(* ---- the triangle setup strategies ---- *)

\* Cull masks and clip flags are bit sets, kept as sets of bit names: | is
\* union, & is intersection, 0 is the empty set.
BitOr3(x) == x[1] \cup x[2] \cup x[3]
BitAnd3(x) == x[1] \cap x[2] \cap x[3]

CLIP_FINITE == {"FINITE"}

\* Mutant: every triangle goes through the clipper.
ClipNeeded_always(t) == TRUE

\* clipFlagsOr != Clipper::CLIP_FINITE
ClipNeeded(t) == BitOr3(t.clipFlags) # CLIP_FINITE

\* The two tests that make setupSolidTriangles skip a triangle outright.
SolidSkipped(t) ==
    \/ BitOr3(t.cullMask) = {}
    \/ BitAnd3(t.clipFlags) # CLIP_FINITE

\* The loop of setupSolidTriangles from triangle i on; r is what the loop
\* did so far: the visible count, the offset of the primitives cursor, and
\* the triangles handed to the clipper and to the setup routine.
RECURSIVE setupSolidTriangles(_, _, _)
setupSolidTriangles(s, i, r) ==
    IF i > Len(s.triangles) THEN r
    ELSE LET t == s.triangles[i] IN
         IF SolidSkipped(t) THEN setupSolidTriangles(s, i + 1, r)
         ELSE LET c == IF ClipNeeded(t)
                       THEN [ r EXCEPT !.clipped = @ \cup {i} ]
                       ELSE r
              IN
              IF ClipNeeded(t) /\ ~t.clipOk
              THEN setupSolidTriangles(s, i + 1, c)
              ELSE IF t.setupOk[1]
                   THEN setupSolidTriangles(s, i + 1,
                            [ c EXCEPT !.routine = @ \cup {i},
                                       !.kept = @ \cup {i},
                                       !.cursor = @ + s.ms,
                                       !.visible = @ + 1 ])
                   ELSE setupSolidTriangles(s, i + 1,
                            [ c EXCEPT !.routine = @ \cup {i} ])

\* setupWireframeTriangles: the sign of the area A, negated when the sign
\* bits of the three w differ an odd number of times.
FrontFacingWireframe(s, t) ==
    LET A == IF t.wNegative THEN 0 - t.A ELSE t.A IN
    IF s.frontFace = "COUNTER_CLOCKWISE" THEN A >= 0 ELSE A <= 0

\* setupPointTriangles: the sign of the determinant d.
FrontFacingPoint(s, t) ==
    IF s.frontFace = "COUNTER_CLOCKWISE" THEN t.d > 0 ELSE t.d < 0

FrontFacing(s, t) ==
    IF s.strategy = "setupWireframeTriangles"
    THEN FrontFacingWireframe(s, t)
    ELSE FrontFacingPoint(s, t)

\* The two cull tests both strategies apply to the facing.
Culled(s, frontFacing) ==
    \/ "FRONT" \in s.cullMode /\ frontFacing
    \/ "BACK" \in s.cullMode /\ ~frontFacing

\* The loop of setupWireframeTriangles and setupPointTriangles from
\* triangle i on: a triangle that is kept is set up as three lines or three
\* points, each of which may succeed.
RECURSIVE setupTriangleParts(_, _, _)
setupTriangleParts(s, i, r) ==
    IF i > Len(s.triangles) THEN r
    ELSE LET t == s.triangles[i]
             n == Cardinality({ j \in 1 .. 3 : t.setupOk[j] })
         IN
         IF Culled(s, FrontFacing(s, t))
         THEN setupTriangleParts(s, i + 1, r)
         ELSE setupTriangleParts(s, i + 1,
                  [ r EXCEPT !.routine = @ \cup {i},
                             !.kept = @ \cup {i},
                             !.cursor = @ + n * s.ms,
                             !.visible = @ + n ])

\* draw->setupPrimitives(device, triangles, primitives, draw, count)
setupPrimitives ==
    /\ setup.pc = "input"
    /\ setup' = [ (IF setup.strategy = "setupSolidTriangles"
                   THEN setupSolidTriangles(setup, 1, setup)
                   ELSE setupTriangleParts(setup, 1, setup))
                     EXCEPT !.pc = "done" ]
    /\ UNCHANGED << nextDrawID, occlusionQuery, pixelState, caller, drawCall,
                    batchData, drawTickets, clusterQueues, tornDown, invoked,
                    submitCalls, rejected, syncs, syncDone, assembly, sizing,
                    routines >>

\* The most a setup strategy can return for count input primitives: every
\* iteration sets up one primitive, or the three lines or points of a
\* triangle, and counts each that succeeds.
MostVisible(strategy, count) ==
    IF strategy \in {"setupWireframeTriangles", "setupPointTriangles"}
    THEN 3 * count
    ELSE count

\* The number of elements of BatchData::primitives.
PrimitiveCapacity == MaxBatchSize

MaxTriangles == 2

Finite == {"FINITE"}
FiniteNear == {"FINITE", "NEAR"}

CullTriples == { << {}, {}, {} >>, << {}, {0}, {} >>, << {0}, {0}, {0} >> }

ClipTriples ==
    { << Finite, Finite, Finite >>, << Finite, FiniteNear, Finite >>,
      << FiniteNear, FiniteNear, FiniteNear >>, << Finite, {}, Finite >>,
      << {"NEAR"}, Finite, Finite >> }

\* Triangles as setupSolidTriangles sees them.
SolidTriangles ==
    [ cullMask : CullTriples, clipFlags : ClipTriples, clipOk : BOOLEAN,
      setupOk : { << TRUE, TRUE, TRUE >>, << FALSE, FALSE, FALSE >> },
      A : {1}, wNegative : {FALSE}, d : {1} ]

\* Triangles as the facing tests of the other two strategies see them.
FacingTriangles ==
    [ cullMask : { << {0}, {0}, {0} >> },
      clipFlags : { << Finite, Finite, Finite >> }, clipOk : {TRUE},
      setupOk : { << TRUE, TRUE, TRUE >>, << TRUE, FALSE, TRUE >>,
                  << FALSE, FALSE, FALSE >> },
      A : {-1, 0, 1}, wNegative : BOOLEAN, d : {-1, 0, 1} ]

Batches(T) == UNION { [ 1 .. n -> T ] : n \in 1 .. MaxTriangles }

CullModes == SUBSET {"FRONT", "BACK"}

SolidInputs ==
    { [ NoSetup EXCEPT !.pc = "input", !.ms = ms, !.triangles = ts ] :
        ms \in {1, 4}, ts \in Batches(SolidTriangles) }

FacingInputs ==
    { [ NoSetup EXCEPT !.pc = "input", !.strategy = f, !.ms = ms,
                       !.frontFace = ff, !.cullMode = cm, !.triangles = ts ] :
        f \in {"setupWireframeTriangles", "setupPointTriangles"},
        ms \in {1, 4},
        ff \in {"COUNTER_CLOCKWISE", "CLOCKWISE"},
        cm \in CullModes,
        ts \in Batches(FacingTriangles) }

SolidInit ==
    /\ RendererInit
    /\ assembly = NoAssembly
    /\ setup \in SolidInputs
    /\ sizing = NoSizing

FacingInit ==
    /\ RendererInit
    /\ assembly = NoAssembly
    /\ setup \in FacingInputs
    /\ sizing = NoSizing

SetupNext == setupPrimitives

SolidSpec == SolidInit /\ [][SetupNext]_vars

FacingSpec == FacingInit /\ [][SetupNext]_vars

(* ---- the batch sizes of one draw ---- *)

\* x < y for two unsigned ints.
Less32(x, y) == x[1] < y[1] \/ (x[1] = y[1] /\ x[2] < y[2])

\* The primitive range DrawCall::run gives batch batchId of a draw of
\* numPrimitives primitives, numPrimitives being an unsigned int in its two
\* halves: std::min picks the end of the batch unless the count is below it.
BatchRange(batchId, numPrimitivesPerBatch, numPrimitives) ==
    LET firstPrimitive == batchId * numPrimitivesPerBatch
        end == firstPrimitive + numPrimitivesPerBatch
    IN
    [ firstPrimitive |-> firstPrimitive,
      numPrimitives |->
          (IF Less32(Unsigned(end), numPrimitives) THEN end
           ELSE numPrimitives[1] * Word + numPrimitives[2]) - firstPrimitive ]

\* draw records the batch size and the batch count of the draw.
Renderer_draw_sizes ==
    LET perBatch == PrimitivesPerBatch([ rasterizerDiscard |-> FALSE,
                                          ms |-> sizing.ms ])
    IN
    /\ sizing.pc = "input"
    /\ sizing' = [ sizing EXCEPT
           !.pc = "run",
           !.numPrimitivesPerBatch = perBatch,
           !.numBatches = BatchCount32(sizing.count, perBatch) ]
    /\ UNCHANGED << nextDrawID, occlusionQuery, pixelState, caller, drawCall,
                    batchData, drawTickets, clusterQueues, tornDown, invoked,
                    submitCalls, rejected, syncs, syncDone, assembly, setup,
                    routines >>

\* One iteration of the loop of DrawCall::run: borrow() returns once a
\* BatchData is free, the batch gets its primitive range and its task is
\* scheduled.
DrawCall_run_range ==
    LET batchId == sizing.batchId IN
    /\ sizing.pc = "run"
    /\ batchId < sizing.numBatches
    /\ sizing.onLoan < BatchDataPoolSize
    /\ sizing' = [ sizing EXCEPT
           !.batches = [ k \in 0 .. batchId |->
                           IF k < batchId THEN sizing.batches[k]
                           ELSE BatchRange(batchId, sizing.numPrimitivesPerBatch,
                                           sizing.count) ],
           !.batchId = batchId + 1,
           !.onLoan = @ + 1 ]
    /\ UNCHANGED << nextDrawID, occlusionQuery, pixelState, caller, drawCall,
                    batchData, drawTickets, clusterQueues, tornDown, invoked,
                    submitCalls, rejected, syncs, syncDone, assembly, setup,
                    routines >>

\* The loop is over: every batch of the draw has its range.
DrawCall_run_rangesDone ==
    /\ sizing.pc = "run"
    /\ sizing.batchId >= sizing.numBatches
    /\ sizing' = [ sizing EXCEPT !.pc = "done" ]
    /\ UNCHANGED << nextDrawID, occlusionQuery, pixelState, caller, drawCall,
                    batchData, drawTickets, clusterQueues, tornDown, invoked,
                    submitCalls, rejected, syncs, syncDone, assembly, setup,
                    routines >>

\* A batch task and its pixel continuations are over: the BatchData goes
\* back to the pool.
BatchData_return ==
    /\ sizing.pc \in {"run", "done"}
    /\ sizing.onLoan > 0
    /\ sizing' = [ sizing EXCEPT !.onLoan = @ - 1 ]
    /\ UNCHANGED << nextDrawID, occlusionQuery, pixelState, caller, drawCall,
                    batchData, drawTickets, clusterQueues, tornDown, invoked,
                    submitCalls, rejected, syncs, syncDone, assembly, setup,
                    routines >>

\* Counts of up to two full batches and one primitive.
SmallCounts == { Unsigned(n) : n \in 1 .. (2 * MaxBatchSize + 1) }

\* UINT_MAX
LargestCount == << Word - 1, Word - 1 >>

SizingCounts == SmallCounts \cup { LargestCount }

SizingInputs ==
    [ pc : {"input"}, count : SizingCounts, ms : {1, 2, 4},
      numPrimitivesPerBatch : {0}, numBatches : {0}, batchId : {0},
      onLoan : {0}, batches : { << >> } ]

SizingInit ==
    /\ RendererInit
    /\ assembly = NoAssembly
    /\ setup = NoSetup
    /\ sizing \in SizingInputs

SizingNext ==
    \/ Renderer_draw_sizes
    \/ DrawCall_run_range
    \/ DrawCall_run_rangesDone
    \/ BatchData_return

SizingSpec == SizingInit /\ [][SizingNext]_vars

\* Every step but the arrival of a new call: the worker pool runs every
\* scheduled task, and the caller goes on whenever it is not blocked.
Progress ==
    \/ \E s \in DrawSlots : Renderer_draw_borrow(s)
    \/ \E b \in BatchSlots : DrawCall_run_batch(b)
    \/ DrawCall_run_return
    \/ WorkerStep

FairSpec == PoolSpec /\ WF_vars(Progress)

(* ---- properties ---- *)

\* Reservation order on a cluster queue: by draw, then by batch index.
TicketBefore(r1, r2) == r1[1] < r2[1] \/ (r1[1] = r2[1] /\ r1[2] < r2[2])

TornIds == { tornDown[i].id : i \in 1 .. Len(tornDown) }

PixelStarted(b, c) == batchData[b].pixel[c] \in {"running", "done"}

\* The batch task or one of its continuations has not finished.
TaskLive(b) ==
    \/ batchData[b].pc # "none"
    \/ \E c \in Clusters : batchData[b].pixel[c] # "none"

\* The batch still has to release its ticket of cluster c.
HoldsTicket(b, c) ==
    \/ batchData[b].pc \in {"vertex", "primitives"}
    \/ batchData[b].pc \in {"pixels", "release"} /\ batchData[b].cluster <= c
    \/ batchData[b].pixel[c] \in {"attached", "running"}

\* C1: the pixel routine of a batch for a cluster has started only if no
\* ticket reserved earlier on that cluster queue is still held, and a batch
\* holds its ticket of a cluster through its vertex and setup stages, until
\* its pixel routine for the cluster has finished or it is found to have
\* nothing to draw.
C1_PixelOrder ==
    /\ \A y \in BatchSlots, c \in Clusters :
          PixelStarted(y, c) =>
              \A i \in 1 .. Len(clusterQueues[c]) :
                  ~TicketBefore(clusterQueues[c][i], ClusterTicket(y))
    /\ \A x \in BatchSlots, c \in Clusters :
          HoldsTicket(x, c) => InQueue(clusterQueues[c], ClusterTicket(x))

\* Two draws shade the same cluster: the later one runs its pixel routine
\* after the earlier one has finished its own.
C1_Witness ==
    \E x, y \in BatchSlots, c \in Clusters :
        /\ batchData[x].drawId < batchData[y].drawId
        /\ batchData[x].pixel[c] = "done"
        /\ batchData[y].pixel[c] = "running"

\* C9: at most one pixel routine runs for a cluster at any time.
C9_OnePixelPerCluster ==
    \A c \in Clusters :
        Cardinality({ b \in BatchSlots : batchData[b].pixel[c] = "running" }) <= 1

\* Two batches shade different clusters at the same time, while one of them
\* waits for the other on a cluster they share.
C9_Witness ==
    \E x, y \in BatchSlots, c, e \in Clusters :
        /\ x # y /\ c # e
        /\ batchData[x].pixel[c] = "running"
        /\ batchData[y].pixel[e] = "running"
        /\ batchData[y].pixel[c] = "attached"

\* C10: a scheduled batch task finds the ticket of its draw on the draw
\* queue and, until it releases them, its own ticket on every cluster queue;
\* every cluster queue holds its tickets in the order of draw submission and,
\* within a draw, of batch index; the draw ticket stays on the draw queue
\* exactly until the finalizer has run.
C10_Reservation ==
    /\ \A b \in BatchSlots :
          TaskLive(b) => InQueue(drawTickets, DrawTicket(batchData[b].drawId))
    /\ \A b \in BatchSlots, c \in Clusters :
          batchData[b].pc \in {"vertex", "primitives"} =>
              InQueue(clusterQueues[c], ClusterTicket(b))
    /\ \A c \in Clusters : \A i, j \in 1 .. Len(clusterQueues[c]) :
          i < j => TicketBefore(clusterQueues[c][i], clusterQueues[c][j])
    /\ \A id \in DrawIds :
          InQueue(drawTickets, DrawTicket(id)) <=>
              /\ id < nextDrawID
              /\ ~(caller.pc = "borrow" /\ id = nextDrawID - 1)
              /\ id \notin TornIds

\* Three batches of two draws stand on one cluster queue while a task is
\* still in its vertex stage.
C10_Witness ==
    \E c \in Clusters, b \in BatchSlots :
        /\ Len(clusterQueues[c]) >= 2
        /\ clusterQueues[c][1][1] # clusterQueues[c][Len(clusterQueues[c])][1]
        /\ batchData[b].pc = "vertex"
        /\ batchData[b].id = 1

\* C2 as claimed: teardowns execute in the order the draws were submitted.
C2_TeardownInSubmissionOrder ==
    \A i, j \in 1 .. Len(tornDown) : i < j => tornDown[i].id < tornDown[j].id

\* The draws whose draw ticket was reserved before the record r.
ReservedBefore(id, r) ==
    IF r[1] = "draw" THEN id < r[2] ELSE id < nextDrawID

\* C2, amended: the teardowns of two draws may execute in either order, but
\* the called record of the draw queue (its head) is reached only after the
\* teardown of every draw reserved before it.
C2_CalledAfterEarlierTeardowns ==
    Len(drawTickets) > 0 =>
        \A id \in DrawIds :
            ReservedBefore(id, Head(drawTickets)) => id \in TornIds

\* The later draw is torn down first; the earlier one is at the head of the
\* draw queue and a synchronize waits behind both.
C2_Witness ==
    /\ Len(tornDown) = 1
    /\ tornDown[1].id = 1
    /\ Len(drawTickets) = 2
    /\ Head(drawTickets) = DrawTicket(0)
    /\ caller.pc = "sync"

\* C3: once synchronize has returned (and updated the sampling-routine
\* cache), every draw submitted before the call has run its stages and its
\* teardown and has released its draw ticket; synchronize holds its own
\* ticket exactly while it waits.
C3_SynchronizeWaits ==
    /\ \A n \in syncDone : \A id \in DrawIds :
          id < n =>
              /\ id \in TornIds
              /\ ~InQueue(drawTickets, DrawTicket(id))
              /\ "vertex" \in invoked[id]
              /\ \A b \in BatchSlots :
                    batchData[b].drawId = id =>
                        /\ ~TaskLive(b)
                        /\ \A c \in Clusters :
                              ~InQueue(clusterQueues[c], ClusterTicket(b))
    /\ \A n \in 0 .. (MaxSyncs - 1) :
          InQueue(drawTickets, SyncTicket(n)) <=>
              (caller.pc = "sync" /\ n = syncs - 1)

\* synchronize returned after two draws, one of which shaded pixels.
C3_Witness ==
    /\ 2 \in syncDone
    /\ "pixel" \in invoked[0]
    /\ tornDown[1].id = 1

\* C4: the finalizer of a draw runs at most once, and once it has run
\* every batch of the draw has been scheduled, has finished its stages and
\* continuations and has released its cluster tickets, and the draw ticket
\* is released; a draw that nothing refers to any more has been torn down.
C4_FinalizerOnce ==
    /\ \A id \in DrawIds :
          Cardinality({ i \in 1 .. Len(tornDown) : tornDown[i].id = id }) <= 1
    /\ \A id \in TornIds :
          /\ ~(caller.pc = "run" /\ drawCall[caller.slot].id = id)
          /\ ~InQueue(drawTickets, DrawTicket(id))
          /\ \A b \in BatchSlots :
                batchData[b].drawId = id =>
                    /\ ~TaskLive(b)
                    /\ \A c \in Clusters :
                          ~InQueue(clusterQueues[c], ClusterTicket(b))
    /\ \A id \in DrawIds :
          ( /\ id < nextDrawID
            /\ caller.pc \in {"idle", "sync"}
            /\ \A b \in BatchSlots : batchData[b].drawId = id => ~TaskLive(b) )
          => id \in TornIds

\* A draw of two batches with pixel work is torn down while the other draw
\* is still at work.
C4_Witness ==
    \E s \in DrawSlots, b \in BatchSlots :
        /\ drawCall[s].id \in TornIds
        /\ drawCall[s].numBatches = 2
        /\ "pixel" \in invoked[drawCall[s].id]
        /\ batchData[b].drawId # drawCall[s].id
        /\ TaskLive(b)

\* The batch went through setup and found nothing visible.
NothingVisible(b) ==
    /\ batchData[b].pc \in {"release", "exit"}
    /\ ~drawCall[batchData[b].draw].rasterizerDiscard
    /\ batchData[b].numVisible = 0

\* C6: a batch with nothing visible can release its next cluster ticket
\* at once, wherever the ticket stands in its queue; no continuation is put
\* on any of its tickets; and when the task ends none of its tickets is
\* left on a cluster queue.
C6_NothingVisibleReleases ==
    \A b \in BatchSlots :
        /\ batchData[b].pc = "release" => ENABLED releaseTickets(b)
        /\ NothingVisible(b) =>
              /\ \A c \in Clusters : batchData[b].pixel[c] = "none"
              /\ batchData[b].data = 0
              /\ batchData[b].pc = "exit" =>
                    \A c \in Clusters :
                        ~InQueue(clusterQueues[c], ClusterTicket(b))

\* A batch with nothing visible has released its tickets from behind the
\* ticket of an earlier batch that is still in its vertex stage.
C6_Witness ==
    \E x, y \in BatchSlots :
        /\ NothingVisible(y)
        /\ batchData[y].pc = "exit"
        /\ batchData[x].pc = "vertex"
        /\ TicketBefore(ClusterTicket(x), ClusterTicket(y))
        /\ \A c \in Clusters : Head(clusterQueues[c]) = ClusterTicket(x)

\* C5: under fair scheduling every submitted draw is eventually torn down
\* and its draw ticket released, also when both pools run out.
C5_EveryDrawCompletes ==
    \A id \in DrawIds :
        (nextDrawID > id) ~>
            (id \in TornIds /\ ~InQueue(drawTickets, DrawTicket(id)))

\* The caller is blocked in drawCallPool.borrow(), every BatchData is on
\* loan too, and a continuation waits for its ticket to be called.
C5_Witness ==
    /\ caller.pc = "borrow"
    /\ \A s \in DrawSlots : drawCall[s].loans > 0
    /\ \A b \in BatchSlots : batchData[b].loans > 0
    /\ \E b \in BatchSlots, c \in Clusters :
          /\ batchData[b].pixel[c] = "attached"
          /\ ~Called(clusterQueues[c], ClusterTicket(b))

\* The state of a DrawCall that draw writes only for rasterization.
RasterFields(d) ==
    << d.setupPrimitives, d.occlusionEnabled, d.sameLayout, d.colorBuffer,
       d.occlusion >>

\* What a draw with rasterizer discard has done so far.
DiscardRunsVertexOnly ==
    /\ \A s \in DrawSlots :
          (drawCall[s].loans > 0 /\ drawCall[s].rasterizerDiscard) =>
              /\ invoked[drawCall[s].id] \subseteq {"vertex"}
              /\ "PrepareForSampling.fragment" \notin submitCalls[drawCall[s].id]
              /\ \A b \in BatchSlots :
                    (batchData[b].loans > 0 /\ batchData[b].draw = s) =>
                        /\ batchData[b].pc \in {"vertex", "release", "exit", "aborted"}
                        /\ \A c \in Clusters : batchData[b].pixel[c] = "none"
    /\ \A i \in 1 .. Len(tornDown) :
          tornDown[i].discard =>
              /\ invoked[tornDown[i].id] = {"vertex"}
              /\ tornDown[i].calls \cap {"colorBuffer.contentsChanged",
                                         "ContentsChanged.fragment",
                                         "query.add", "query.finish"} = {}

\* A DrawCall borrowed for a draw with rasterizer discard keeps the
\* rasterization state it had, and the renderer keeps its pixel state.
DiscardPopulatesNothing ==
    \A s \in DrawSlots :
        (drawCall'[s].id # drawCall[s].id /\ drawCall'[s].rasterizerDiscard) =>
            /\ RasterFields(drawCall'[s]) = RasterFields(drawCall[s])
            /\ pixelState' = pixelState

\* C7: for a draw with rasterizer discard the batch tasks run the vertex
\* stage only and then release their tickets, submission populates no
\* rasterization state of the DrawCall, and teardown sends neither the
\* attachment nor the fragment-stage contents-changed notification.
C7_RasterizerDiscard ==
    []DiscardRunsVertexOnly /\ [][DiscardPopulatesNothing]_vars

\* A draw with rasterizer discard was torn down in a DrawCall that still
\* holds the attachment, the occlusion query and the non-zero occlusion
\* counters of an earlier draw.
C7_Witness ==
    \E s \in DrawSlots, i \in 1 .. Len(tornDown) :
        /\ tornDown[i].id = drawCall[s].id
        /\ tornDown[i].discard
        /\ drawCall[s].colorBuffer
        /\ drawCall[s].fragmentContainsImageWrite
        /\ drawCall[s].occlusionQuery
        /\ \E c \in Clusters : drawCall[s].occlusion[c] = 1

\* Everything but the count of rejected calls.
programVars ==
    << nextDrawID, occlusionQuery, pixelState, routines, caller, drawCall,
       batchData, drawTickets, clusterQueues, tornDown, invoked, submitCalls, syncs,
       syncDone, assembly, setup, sizing >>

\* C8: a call of Renderer::draw with a count of zero changes nothing.
C8_ZeroCountDrawIsNoOp ==
    [][ \A p \in QueryInputs :
          (p.count = 0 /\ Renderer_draw(p)) => UNCHANGED programVars ]_vars

\* A zero-count draw was made while a query was set and a batch of an
\* earlier draw was at work.
C8_Witness ==
    /\ rejected > 0
    /\ occlusionQuery
    /\ nextDrawID > 0
    /\ \E b \in BatchSlots : TaskLive(b)

\* The primitives-per-batch value the division by 3 is meant to produce.
DividedPerBatch(p) ==
    IF ~p.rasterizerDiscard /\ p.topology = "triangle"
       /\ p.polygonMode \in {"LINE", "POINT"}
    THEN PrimitivesPerBatch(p) \div 3
    ELSE PrimitivesPerBatch(p)

\* C11: the primitives-per-batch recorded on a draw handed to DrawCall::run
\* is MaxBatchSize divided by the sample count, divided again by 3 for
\* wireframe and point-fill triangles, and the recorded batch count is the
\* ceiling of count divided by it.
C11_BatchSizing ==
    [][ \A s \in DrawSlots :
          (caller.pc = "borrow" /\ caller'.pc = "run" /\ caller'.slot = s) =>
              /\ drawCall'[s].numPrimitivesPerBatch = DividedPerBatch(caller.p)
              /\ drawCall'[s].numBatches =
                     BatchCount(caller.p.count, DividedPerBatch(caller.p)) ]_vars

\* batch[i][j] as processPrimitiveVertices left it.
Entry(i, j) == assembly.out[3 * i + j + 1]

Assembled == assembly.pc = "done"

TriangleTopologies == {"TRIANGLE_LIST", "TRIANGLE_STRIP", "TRIANGLE_FAN"}

LineTopologies == {"LINE_LIST", "LINE_STRIP"}

\* The positions in the index source that primitive k of a draw uses, in
\* slot order: the vertices of the primitive with its provoking vertex first.
Reference(topology, provokeFirst, k) ==
    CASE topology = "POINT_LIST" -> << k >>
      [] topology = "LINE_LIST" ->
            IF provokeFirst THEN << 2 * k, 2 * k + 1 >> ELSE << 2 * k + 1, 2 * k >>
      [] topology = "LINE_STRIP" ->
            IF provokeFirst THEN << k, k + 1 >> ELSE << k + 1, k >>
      [] topology = "TRIANGLE_LIST" ->
            IF provokeFirst THEN << 3 * k, 3 * k + 1, 3 * k + 2 >>
            ELSE << 3 * k + 2, 3 * k, 3 * k + 1 >>
      [] topology = "TRIANGLE_STRIP" ->
            IF k % 2 = 0
            THEN IF provokeFirst THEN << k, k + 1, k + 2 >> ELSE << k + 2, k, k + 1 >>
            ELSE IF provokeFirst THEN << k, k + 2, k + 1 >> ELSE << k + 2, k + 1, k >>
      [] topology = "TRIANGLE_FAN" ->
            IF provokeFirst THEN << k + 1, k + 2, 0 >> ELSE << k + 2, 0, k + 1 >>

\* The same primitive assembled as a batch of its own.
AloneInBatch(i) ==
    triangleIndicesOut([ assembly EXCEPT !.start = assembly.start + i,
                                         !.triangleCount = 1 ])

\* C12: for every topology, provoking-vertex convention, index source, start
\* offset and count, primitive i of the batch holds the indices the reference
\* formula gives for primitive start + i of the draw, and they are the ones
\* it gets as the only primitive of a batch that starts at start + i.
C12_ReferenceIndices ==
    Assembled =>
        \A i \in 0 .. (assembly.triangleCount - 1) :
            LET ref == Reference(assembly.topology, assembly.provokeFirst,
                                 assembly.start + i)
            IN IF assembly.topology = "POINT_LIST"
               THEN /\ assembly.out[i + 1] = IndexAt(assembly, ref[1])
                    /\ assembly.out[i + 1] = AloneInBatch(i)[1]
               ELSE /\ \A j \in 1 .. Len(ref) :
                          Entry(i, j - 1) = IndexAt(assembly, ref[j])
                    /\ \A j \in 0 .. 2 : Entry(i, j) = AloneInBatch(i)[j + 1]

\* A full batch of an indexed triangle strip that starts at an odd primitive.
C12_Witness ==
    /\ Assembled
    /\ assembly.topology = "TRIANGLE_STRIP"
    /\ assembly.indexType = "UINT16"
    /\ assembly.start % 2 = 1
    /\ assembly.triangleCount = MaxBatchSize
    /\ Entry(MaxBatchSize - 1, 0) # Uninit

\* The vertices of triangle k in the order the API defines them; odd strip
\* triangles have two vertices swapped.
ApiOrder(topology, k) ==
    CASE topology = "TRIANGLE_LIST" -> << 3 * k, 3 * k + 1, 3 * k + 2 >>
      [] topology = "TRIANGLE_STRIP" ->
            IF k % 2 = 0 THEN << k, k + 1, k + 2 >> ELSE << k, k + 2, k + 1 >>
      [] topology = "TRIANGLE_FAN" -> << k + 1, k + 2, 0 >>

\* The provoking vertex of primitive k: the first vertex of the primitive,
\* or the last one the primitive takes from the vertex stream.
ProvokingVertex(topology, provokeFirst, k) ==
    CASE topology = "LINE_LIST" -> IF provokeFirst THEN 2 * k ELSE 2 * k + 1
      [] topology = "LINE_STRIP" -> IF provokeFirst THEN k ELSE k + 1
      [] topology = "TRIANGLE_LIST" -> IF provokeFirst THEN 3 * k ELSE 3 * k + 2
      [] topology = "TRIANGLE_STRIP" -> IF provokeFirst THEN k ELSE k + 2
      [] topology = "TRIANGLE_FAN" -> IF provokeFirst THEN k + 1 ELSE k + 2

Rotations(t) == { t, << t[2], t[3], t[1] >>, << t[3], t[1], t[2] >> }

\* C13: slot 0 of every assembled line and triangle holds its provoking
\* vertex, and every assembled triangle is a cyclic rotation of the API
\* order of its vertices, under both conventions and for every start offset.
C13_ProvokingVertexAndWinding ==
    (Assembled /\ assembly.topology # "POINT_LIST") =>
        \A i \in 0 .. (assembly.triangleCount - 1) :
            LET k == assembly.start + i
                api == ApiOrder(assembly.topology, k)
            IN /\ Entry(i, 0) =
                      IndexAt(assembly, ProvokingVertex(assembly.topology,
                                                        assembly.provokeFirst, k))
               /\ assembly.topology \in TriangleTopologies =>
                      << Entry(i, 0), Entry(i, 1), Entry(i, 2) >> \in
                          Rotations(<< IndexAt(assembly, api[1]),
                                       IndexAt(assembly, api[2]),
                                       IndexAt(assembly, api[3]) >>)

\* Triangles of a fan assembled under the last-vertex convention, from a
\* start offset inside the draw.
C13_Witness ==
    /\ Assembled
    /\ assembly.topology = "TRIANGLE_FAN"
    /\ ~assembly.provokeFirst
    /\ assembly.indexType = "none"
    /\ assembly.start > 0
    /\ assembly.triangleCount > 1
    /\ Entry(1, 0) = assembly.start + 3

\* C14: after processPrimitiveVertices the three entries of the trailing row
\* equal the last entry of the last primitive (lines and triangles), or the
\* three entries after the compacted points repeat the last point; every
\* entry up to there is written, with an index the batch uses.
C14_TrailingEntries ==
    Assembled =>
        LET n == assembly.triangleCount IN
        IF assembly.topology = "POINT_LIST"
        THEN /\ \A e \in 1 .. (n + 3) : assembly.out[e] # Uninit
             /\ \A j \in 1 .. 3 : assembly.out[n + j] = assembly.out[n]
        ELSE /\ \A e \in DOMAIN assembly.out : assembly.out[e] # Uninit
             /\ \A j \in 0 .. 2 : Entry(n, j) = Entry(n - 1, 2)

\* A full batch of points, with the last point repeated behind it.
C14_Witness ==
    /\ Assembled
    /\ assembly.topology = "POINT_LIST"
    /\ assembly.triangleCount = MaxBatchSize
    /\ assembly.start = MaxBatchSize
    /\ assembly.out[MaxBatchSize + 3] = IndexAt(assembly, 2 * MaxBatchSize - 1)

\* The DrawCall is in the pool after a draw used it.
Returned(s) == drawCall[s].id >= 0 /\ drawCall[s].loans = 0

TornDownAndReleased(id) ==
    id \in TornIds /\ ~InQueue(drawTickets, DrawTicket(id))

\* C15: a DrawCall that a draw used is back in the pool only after the
\* teardown of that draw and the release of its draw ticket, and it stays on
\* loan to its draw, out of reach of another borrow, while DrawCall::run, a
\* batch task, a pixel continuation or the finalizer of the draw is still to
\* run.
C15_ReturnedOnlyAfterTeardown ==
    /\ \A s \in DrawSlots : Returned(s) => TornDownAndReleased(drawCall[s].id)
    /\ \A s \in DrawSlots :
          (drawCall[s].finally > 0 \/ (caller.pc = "run" /\ caller.slot = s)) =>
              drawCall[s].loans > 0
    /\ \A b \in BatchSlots :
          TaskLive(b) =>
              /\ drawCall[batchData[b].draw].id = batchData[b].drawId
              /\ drawCall[batchData[b].draw].loans > 0
              /\ drawCall[batchData[b].draw].finally > 0

\* C16: a BatchData that is in the batch pool has none of its cluster
\* tickets outstanding and no task or continuation left, and a BatchData
\* whose batch task or pixel continuation is pending or running is on loan,
\* so DrawCall::run cannot borrow it for another batch.
C16_BatchDataReturnedAfterTickets ==
    \A b \in BatchSlots :
        /\ (batchData[b].drawId >= 0 /\ batchData[b].loans = 0) =>
              /\ ~TaskLive(b)
              /\ \A c \in Clusters : ~InQueue(clusterQueues[c], ClusterTicket(b))
        /\ TaskLive(b) => batchData[b].loans > 0
        /\ batchData[b].loans >= 0

\* DrawCall::run has a batch to schedule while every BatchData is on loan,
\* one of them only to its pixel continuations, which are pending or running.
C16_Witness ==
    /\ caller.pc = "run"
    /\ caller.batchId < drawCall[caller.slot].numBatches
    /\ \A b \in BatchSlots : batchData[b].loans > 0
    /\ \E b \in BatchSlots :
          /\ batchData[b].pc = "none"
          /\ \E c \in Clusters : batchData[b].pixel[c] \in {"attached", "running"}

\* The draw in the caller's hands is a triangle draw without rasterizer
\* discard whose polygon mode is none of FILL, LINE, POINT.
InvalidPolygonMode ==
    /\ caller.pc = "borrow"
    /\ caller.p.topology = "triangle"
    /\ ~caller.p.rasterizerDiscard
    /\ caller.p.polygonMode \notin {"FILL", "LINE", "POINT"}

\* Nothing of draw id reached the scheduler, the events or the query.
NeverScheduled(id) ==
    /\ ~InQueue(drawTickets, DrawTicket(id))
    /\ id \notin TornIds
    /\ \A b \in BatchSlots : batchData[b].drawId # id
    /\ \A c \in Clusters : \A i \in 1 .. Len(clusterQueues[c]) :
          clusterQueues[c][i][1] # id
    /\ invoked[id] = {}
    /\ submitCalls[id] \cap {"events.add", "query.start", "events.done"} = {}

\* C17: the step that a triangle draw without rasterizer discard and with a
\* polygon mode other than FILL, LINE, POINT takes after borrowing its
\* DrawCall raises the UNSUPPORTED diagnostic, takes no ticket, schedules no
\* batch and ends in an unrecoverable error: the caller does not go on and
\* nothing runs afterwards; of a draw that raised the diagnostic nothing
\* ever reaches the scheduler, the events or the query, and its DrawCall is
\* back in the pool.
C17_InvalidPolygonMode ==
    /\ [](\A id \in DrawIds :
            "UNSUPPORTED" \in submitCalls[id] =>
                /\ NeverScheduled(id)
                /\ \A s \in DrawSlots :
                      drawCall[s].id = id => drawCall[s].loans = 0)
    /\ [][ /\ (InvalidPolygonMode /\ caller' # caller) =>
                /\ "UNSUPPORTED" \in submitCalls'[nextDrawID - 1]
                /\ caller'.pc = "aborted"
                /\ drawTickets' = drawTickets
                /\ batchData' = batchData
                /\ clusterQueues' = clusterQueues
            /\ caller.pc # "aborted" ]_vars

QueryCalls == {"query.start", "query.add", "query.finish"}

\* C18 as claimed: the query is called in teardown only, never while the
\* draw is submitted or scheduled.
C18_QueryOnlyInTeardown ==
    \A id \in DrawIds : submitCalls[id] \cap QueryCalls = {}

\* C18: start() is called by DrawCall::setup, on the submitting thread as
\* the draw is handed to DrawCall::run, iff the renderer has an occlusion
\* query then; add() and finish() are called in teardown only, iff the draw
\* carried the query and rasterization is not discarded.
C18_QueryStartAtSetup ==
    /\ [](/\ \A id \in DrawIds :
                submitCalls[id] \cap {"query.add", "query.finish"} = {}
          /\ \A i \in 1 .. Len(tornDown) :
                LET t == tornDown[i] IN
                /\ "query.start" \notin t.calls
                /\ "query.add" \in t.calls <=> "query.finish" \in t.calls
                /\ "query.finish" \in t.calls <=>
                      ("query.start" \in submitCalls[t.id] /\ ~t.discard))
    /\ [][ /\ \A id \in DrawIds :
                ("query.start" \in submitCalls'[id]
                    /\ "query.start" \notin submitCalls[id]) =>
                    /\ caller.pc = "borrow" /\ caller'.pc = "run"
                    /\ id = nextDrawID - 1
                    /\ occlusionQuery
           /\ (caller.pc = "borrow" /\ caller'.pc = "run" /\ occlusionQuery) =>
                 "query.start" \in submitCalls'[nextDrawID - 1] ]_vars

\* One draw started the query at setup and finished it in its teardown;
\* another, with rasterizer discard, started it and was torn down without
\* add() or finish().
C18_Witness ==
    /\ \E i \in 1 .. Len(tornDown) :
          /\ "query.finish" \in tornDown[i].calls
          /\ "query.start" \in submitCalls[tornDown[i].id]
    /\ \E j \in 1 .. Len(tornDown) :
          /\ tornDown[j].discard
          /\ "query.start" \in submitCalls[tornDown[j].id]
          /\ "query.finish" \notin tornDown[j].calls

\* The draws whose setup called events->add(), and the teardown records
\* that called events->done().
Added == { id \in DrawIds : "events.add" \in submitCalls[id] }
DoneRecords == { i \in 1 .. Len(tornDown) : "events.done" \in tornDown[i].calls }

\* No draw is in the caller's hands and no task or continuation is left.
Quiescent ==
    /\ caller.pc = "idle"
    /\ \A b \in BatchSlots : ~TaskLive(b)

\* C19: a draw handed to DrawCall::run calls events->add() iff it carries
\* an event handle, in the step that hands it over, when no batch of it is
\* scheduled yet; events->done() is called in teardown only, at most once
\* per draw, exactly for the draws that called add(), and after every
\* batch task and pixel continuation of the draw has finished; once all
\* submitted draws have completed there are as many done() as add() calls.
C19_EventsAddAndDone ==
    /\ [](/\ \A id \in DrawIds : "events.done" \notin submitCalls[id]
          /\ \A i \in 1 .. Len(tornDown) :
                /\ "events.add" \notin tornDown[i].calls
                /\ i \in DoneRecords <=> tornDown[i].id \in Added
          /\ \A i, j \in DoneRecords : tornDown[i].id = tornDown[j].id => i = j
          /\ \A i \in DoneRecords : \A b \in BatchSlots :
                batchData[b].drawId = tornDown[i].id =>
                    /\ ~TaskLive(b)
                    /\ \A c \in Clusters :
                          ~InQueue(clusterQueues[c], ClusterTicket(b))
          /\ Quiescent =>
                /\ Added = { tornDown[i].id : i \in DoneRecords }
                /\ Cardinality(DoneRecords) = Cardinality(Added))
    /\ [][ /\ submitCalls' # submitCalls =>
                (caller.pc = "borrow" /\ caller'.pc = "run")
           /\ (caller.pc = "borrow" /\ caller'.pc = "run") =>
                LET id == nextDrawID - 1 IN
                /\ caller.p.events <=> id \in Added'
                /\ \A b \in BatchSlots : batchData'[b].drawId # id
                /\ \A c \in Clusters : \A i \in 1 .. Len(clusterQueues'[c]) :
                      clusterQueues'[c][i][1] # id ]_vars

\* Both draws have completed: one carried an event handle, ran its pixel
\* routine and called done() in its teardown, the other carried none.
C19_Witness ==
    /\ Quiescent
    /\ Len(tornDown) = 2
    /\ Cardinality(Added) = 1
    /\ \E i \in DoneRecords : "pixel" \in invoked[tornDown[i].id]

\* One pipeline layout serves both stage groups and the teardown record
\* notified it for each.
NotifiedTwice(t, same) ==
    /\ same
    /\ "ContentsChanged.preRasterization" \in t.calls
    /\ "ContentsChanged.fragment" \in t.calls

\* C20: the step that tears a draw down calls ContentsChanged for the
\* pre-rasterization layout iff the pre-rasterization stages of the draw
\* contain image writes, and for the fragment layout iff rasterization is
\* not discarded, the fragment stage contains image writes and the
\* pre-rasterization case has not notified the same layout; no layout is
\* notified twice; and nothing but teardown calls ContentsChanged.
C20_ContentsChanged ==
    /\ [](\A id \in DrawIds :
            submitCalls[id] \cap {"ContentsChanged.preRasterization",
                                  "ContentsChanged.fragment"} = {})
    /\ [][ tornDown' # tornDown =>
              LET t == tornDown'[Len(tornDown')] IN
              /\ Len(tornDown') = Len(tornDown) + 1
              /\ \E s \in DrawSlots : drawCall[s].id = t.id
              /\ \A s \in DrawSlots :
                    drawCall[s].id = t.id =>
                        LET d == drawCall[s]
                            same == ~d.rasterizerDiscard /\ d.sameLayout
                        IN
                        /\ "ContentsChanged.preRasterization" \in t.calls <=>
                              d.preRasterizationContainsImageWrite
                        /\ "ContentsChanged.fragment" \in t.calls <=>
                              /\ ~d.rasterizerDiscard
                              /\ d.fragmentContainsImageWrite
                              /\ ~(d.preRasterizationContainsImageWrite
                                      /\ d.sameLayout)
                        /\ ~NotifiedTwice(t, same) ]_vars

\* A draw whose two stage groups write images through one pipeline layout
\* was torn down with the single notification of the pre-rasterization
\* case, and another with two layouts was torn down with both.
C20_Witness ==
    /\ Len(tornDown) = 2
    /\ \E s \in DrawSlots, i \in 1 .. Len(tornDown) :
          /\ drawCall[s].id = tornDown[i].id
          /\ ~drawCall[s].rasterizerDiscard
          /\ drawCall[s].sameLayout
          /\ drawCall[s].preRasterizationContainsImageWrite
          /\ drawCall[s].fragmentContainsImageWrite
          /\ "ContentsChanged.preRasterization" \in tornDown[i].calls
          /\ "ContentsChanged.fragment" \notin tornDown[i].calls
    /\ \E s \in DrawSlots, i \in 1 .. Len(tornDown) :
          /\ drawCall[s].id = tornDown[i].id
          /\ ~drawCall[s].sameLayout
          /\ {"ContentsChanged.preRasterization", "ContentsChanged.fragment"}
                \subseteq tornDown[i].calls

\* The step is processVertices for the batch in BatchData b.
VertexStep(b) == batchData[b].pc = "vertex" /\ batchData'[b].pc # "vertex"

\* C21: after the vertex routine ran for a batch of draw D, the vertex
\* cache of the batch's BatchData is owned by D and every entry in it was
\* produced for D; the entries found there were kept iff the cache was D's
\* already, and dropped iff it belonged to another draw (or to none), as
\* when the BatchData comes back from the pool for a later draw.
C21_VertexCacheOwner ==
    /\ [](\A b \in BatchSlots :
            \A e \in batchData[b].vertexCache.entries :
                e[1] = batchData[b].vertexCache.drawCall)
    /\ [][ \A b \in BatchSlots :
              VertexStep(b) =>
                  LET D == drawCall[batchData[b].draw].id
                      before == batchData[b].vertexCache
                      after == batchData'[b].vertexCache
                  IN
                  /\ D = batchData[b].drawId
                  /\ after.drawCall = D
                  /\ \A e \in after.entries : e[1] = D
                  /\ << D, batchData[b].id >> \in after.entries
                  /\ before.drawCall = D =>
                        after.entries = before.entries \cup {<< D, batchData[b].id >>}
                  /\ before.drawCall # D =>
                        after.entries = {<< D, batchData[b].id >>} ]_vars

\* One BatchData holds the entries of both batches of the third draw and
\* the other is owned by the second draw: one of them served the first draw
\* and was cleared for a later one.
C21_Witness ==
    \E b, o \in BatchSlots :
        /\ b # o
        /\ batchData[b].vertexCache.drawCall = 2
        /\ Cardinality(batchData[b].vertexCache.entries) = 2
        /\ batchData[o].vertexCache.drawCall = 1
        /\ batchData[o].vertexCache.entries # {}

SetupDone == setup.pc = "done"

\* What the claim says of triangle i of the batch.
AllCulled(i) ==
    LET m == setup.triangles[i].cullMask IN m[1] \cup m[2] \cup m[3] = {}

NotAllFinite(i) ==
    LET f == setup.triangles[i].clipFlags IN f[1] \cap f[2] \cap f[3] # {"FINITE"}

NeedsClipper(i) ==
    LET f == setup.triangles[i].clipFlags IN f[1] \cup f[2] \cup f[3] # {"FINITE"}

ReachesSetupRoutine(i) ==
    /\ ~AllCulled(i)
    /\ ~NotAllFinite(i)
    /\ NeedsClipper(i) => setup.triangles[i].clipOk

\* C22: setupSolidTriangles skips a triangle whose cull masks OR to zero or
\* whose clip flags do not AND to CLIP_FINITE, calls the clipper for the
\* others exactly when their clip flags do not OR to CLIP_FINITE and skips
\* the triangle when clipping fails; it returns the number of triangles the
\* setup routine succeeded for and has advanced the output cursor by the
\* sample count for each of those and for no other.
C22_SolidTriangles ==
    (SetupDone /\ setup.strategy = "setupSolidTriangles") =>
        LET tri == DOMAIN setup.triangles
            succeeded == { i \in tri : ReachesSetupRoutine(i)
                                        /\ setup.triangles[i].setupOk[1] }
        IN
        /\ setup.clipped =
              { i \in tri : ~AllCulled(i) /\ ~NotAllFinite(i) /\ NeedsClipper(i) }
        /\ setup.routine = { i \in tri : ReachesSetupRoutine(i) }
        /\ setup.kept = succeeded
        /\ setup.visible = Cardinality(succeeded)
        /\ setup.cursor = setup.ms * Cardinality(succeeded)

\* Of two triangles at four samples, the first failed in the clipper and
\* the second was clipped and set up: one visible, the cursor four on.
C22_Witness ==
    /\ SetupDone
    /\ setup.strategy = "setupSolidTriangles"
    /\ setup.ms = 4
    /\ Len(setup.triangles) = 2
    /\ setup.clipped = {1, 2}
    /\ setup.routine = {2}
    /\ setup.visible = 1
    /\ setup.cursor = 4

\* Both strategies see the same sign: the area A of the wireframe test,
\* after its negation by the signs of w, is the determinant d of the point
\* test.
SameSign(t) == (IF t.wNegative THEN 0 - t.A ELSE t.A) = t.d

\* The decision each strategy would take on triangle t of the call.
WireframeDiscards(t) == Culled(setup, FrontFacingWireframe(setup, t))
PointDiscards(t) == Culled(setup, FrontFacingPoint(setup, t))

\* C23 as claimed: on triangles of which both strategies see the same sign
\* of the area, the strategy that ran kept exactly the triangles the other
\* would have kept; with cull mode NONE it kept every triangle and with
\* FRONT_AND_BACK none.
C23_SameFacingDecision ==
    SetupDone =>
        \A i \in DOMAIN setup.triangles :
            LET t == setup.triangles[i] IN
            /\ SameSign(t) =>
                  /\ (i \in setup.kept) = ~WireframeDiscards(t)
                  /\ (i \in setup.kept) = ~PointDiscards(t)
            /\ setup.cullMode = {} => i \in setup.kept
            /\ setup.cullMode = {"FRONT", "BACK"} => i \notin setup.kept

\* The primitives of batch k of a draw with these recorded sizes.
BatchSize(d, k) ==
    Min(k * d.numPrimitivesPerBatch + d.numPrimitivesPerBatch, d.numPrimitives)
        - k * d.numPrimitivesPerBatch

\* C24: when a draw is handed to DrawCall::run, no batch of it can make its
\* setup strategy write more Primitive slots, the sample count for each
\* visible primitive, than the primitive array of a BatchData holds.
C24_PrimitiveCapacity ==
    [][ \A s \in DrawSlots :
          (caller.pc = "borrow" /\ caller'.pc = "run" /\ caller'.slot = s
              /\ ~caller.p.rasterizerDiscard) =>
              LET d == drawCall'[s] IN
              \A k \in 0 .. (d.numBatches - 1) :
                  MostVisible(d.setupPrimitives, BatchSize(d, k)) * caller.p.ms
                      <= PrimitiveCapacity ]_vars

RECURSIVE PrimitivesUpTo(_)
\* The primitives in batches 0 .. k of the draw.
PrimitivesUpTo(k) ==
    IF k < 0 THEN 0
    ELSE sizing.batches[k].numPrimitives + PrimitivesUpTo(k - 1)

\* C25: the batches of a draw with count > 0 partition [0, count): there is
\* at least one, batch k starts at k times primitives-per-batch, where
\* batch k - 1 ended, each holds at least 1 and at most primitives-per-batch
\* primitives, and their primitive counts sum to count.
C25_BatchesPartition ==
    sizing.pc = "done" =>
        LET per == sizing.numPrimitivesPerBatch
            last == sizing.numBatches - 1
        IN
        /\ sizing.numBatches >= 1
        /\ \A k \in 0 .. last :
              /\ sizing.batches[k].firstPrimitive = k * per
              /\ sizing.batches[k].numPrimitives \in 1 .. per
              /\ k > 0 => sizing.batches[k].firstPrimitive =
                             sizing.batches[k - 1].firstPrimitive
                                 + sizing.batches[k - 1].numPrimitives
        /\ sizing.count[1] = 0 => PrimitivesUpTo(last) = sizing.count[2]

\* The teardown record of draw id, if it has one.
TornRecords(id) == { i \in 1 .. Len(tornDown) : tornDown[i].id = id }

\* The draw was handed to DrawCall::run with a non-null occlusion query.
StartedQuery(id) == "query.start" \in submitCalls[id]

\* C26 as claimed: once a draw that snapshot a non-null occlusion query has
\* completed, its start() is matched by a finish() of its teardown, with the
\* add() calls before it, whether or not rasterization is discarded.
C26_StartMatchedByFinish ==
    \A id \in DrawIds :
        StartedQuery(id) =>
            \A i \in TornRecords(id) :
                {"query.add", "query.finish"} \subseteq tornDown[i].calls

\* What the pixel stages of the draw in DrawCall s accumulated for a
\* cluster: the pixel routine counts one when it ran with occlusion enabled.
OwnCount(s) ==
    IF "pixel" \in invoked[drawCall[s].id] /\ drawCall[s].occlusionEnabled
    THEN 1 ELSE 0

\* C27: a draw handed to DrawCall::run with a non-null occlusion query has
\* all its occlusion counters at zero then, and the counters its teardown
\* adds to the query are what its own pixel stages accumulated.
C27_OwnOcclusionCounts ==
    [][ /\ \A s \in DrawSlots :
              (caller.pc = "borrow" /\ caller'.pc = "run" /\ caller'.slot = s
                  /\ occlusionQuery) =>
                  \A c \in Clusters : drawCall'[s].occlusion[c] = 0
        /\ tornDown' # tornDown =>
              LET t == tornDown'[Len(tornDown')] IN
              \A s \in DrawSlots :
                  (drawCall[s].id = t.id /\ "query.add" \in t.calls) =>
                      \A c \in Clusters : drawCall[s].occlusion[c] = OwnCount(s) ]_vars

====
